---- MODULE Spec2Model ----
(***************************************************************************)
(* Pepper's-cone warp map engine: the cone map builders of                 *)
(* "Circular Cone/CircularConeImage.py", "Circular Cone/CircularConeLive.py"*)
(* and Interface/live_view.py, the encoded warp map decoder, the map       *)
(* rotation and the keyboard-driven frame loop of                          *)
(* "Circular Cone/CircularConeVideo.py", and the per-frame pipelines.       *)
(*                                                                         *)
(* Numbers.  The scripts compute in floating point; the model computes the *)
(* same expressions in exact arithmetic on scaled integers:                *)
(*   - angles are fractions of a half turn (pi), scaled by AngleOne;       *)
(*   - a coordinate map built by a cone map builder holds source           *)
(*     coordinates in units of 1/32 pixel, the resolution at which         *)
(*     cv2.remap reads a map (INTER_BITS = 5);                             *)
(*   - a decoded warp map holds source coordinates as numerators over      *)
(*     mapDiv = 4095;                                                      *)
(*   - brightness alpha and power are counted in tenths.                   *)
(***************************************************************************)
EXTENDS Integers, Sequences, FiniteSets, TLC

VARIABLES
    \* ---- cone map build loop (the three builders) ----
    builder,        \* which script's loop runs: "image", "live", "live_view"
    frame_size,     \* frame_size / FRAME_SIZE of the build
    canvas_size,    \* canvas_size / CANVAS_SIZE of the build
    pix,            \* loop position: pixels handled so far, row-major; in scenario A the pixel followed
    map_x,          \* map_x[<<y, x>>], 1/32 pixel
    map_y,          \* map_y[<<y, x>>], 1/32 pixel
    map_pc,         \* "idle", "loop", "built", "saved", "done"; "scenario" at the start of scenario A,
                    \* "view" / "viewed" when one output pixel of a view is followed
    \* ---- decoding one pixel of the encoded warp map (CircularConeVideo.py) ----
    dec_pixel,      \* the four channel values <<r, g, b, a>> as the decoder indexes them
    flip_texture,   \* flip_texture
    dec_src,        \* the coordinate pair the pixel encodes, in 1/10 pixel, or <<>>
    dec_out,        \* the decoded <<map_x, map_y>> entry, numerators over mapDiv, or <<>>
    dec_pc,         \* "idle", "encoded", "decoded"
    \* ---- CircularConeVideo.py: setup and frame loop ----
    cam_opened,     \* cap.isOpened()
    warp_file,      \* the image file at warp_map_path
    encoded_map,    \* what cv2.imread returned
    warp_map_x,     \* map_x, numerators over mapDiv, by <<y, x>>
    warp_map_y,     \* map_y
    rotation_angle, \* degrees
    alpha,          \* brightness alpha, tenths
    power,          \* brightness power, tenths
    rot_matrix,     \* rot_matrix of the last frame
    rot_map_x,      \* rot_map_x of the last frame, numerators over mapDiv * 1024
    rot_map_y,      \* rot_map_y
    frame_in,       \* the frame, mask and brightness values handed to the last frame pass
    warped,         \* the warped frame of the last iteration (of any of the scripts)
    stages,         \* the processing stages the last frame went through, in order
    key,            \* cv2.waitKey(1) & 0xFF of the last iteration
    captured,       \* cap.read() has been called
    error,          \* the exception that ended the script, or "none"
    vid_pc,         \* "idle", "start", "loop", "raised", "done"
    \* ---- Interface: one background removal call of a view ----
    seg_view,       \* "live_view", "record_view", "upload_view", or "none"
    seg_kind,       \* the segmentor: "none", "masks" or "raises"
    seg_frame,      \* the square frame handed in, a value per pixel
    seg_mask,       \* the pixels the segmentor keeps
    seg_result,     \* [status, fg]: the foreground returned, or the exception raised
    seg_pc,         \* "idle", "called", "returned", "raised"
    \* ---- one call of a compositor (resize, scale by 0.6, paste centred) ----
    cmp_path,       \* "video", "live", "live_view", "image", or "none"
    cmp_size,       \* <<height, width>> of the input frame
    cmp_fs,         \* the working size (frame_size / FRAME_SIZE)
    cmp_out,        \* the composited frame, or <<>>
    cmp_pc,         \* "idle", "called", "done"
    \* ---- Interface: the latest-frame cell of a view, its writer and its reader ----
    cell_view,      \* "live_view" (_last_bgr), "record_view" (last_frame), or "none"
    cell,           \* the frame in the cell (frames are numbered from 1), 0 for None
    cell_latest,    \* the frame the capture thread stored last, 0 before the first
    lock_holder,    \* who holds _frame_lock: "none", "producer", "consumer"
    prod_pc,        \* capture thread: "idle", "capture", "acquire", "write", "release", "written", "done"
    prod_frame,     \* the frame the capture thread holds, 0 for none
    cons_pc,        \* Tk thread tick: "idle", "acquire", "read", "release", "show"
    cons_tick,      \* the tick under way: "preview", "fullscreen", or "none"
    cons_frame,     \* the frame the tick got, 0 for None
    cam_next,       \* the number of the next frame the camera delivers
    cell_stop,      \* the stop event is set / recording is False
    \* ---- Interface: "Open Cone Screen (process now)" of the record and upload views ----
    ply_view,       \* "record_view", "upload_view", or "none"
    ply_input,      \* [exists, opens, fps, import_ok, save_copy]: the file chosen and the environment
    ply_cap,        \* the player's capture: "none", "open", "released"
    ply_delay,      \* delay, the waitKey time of the playback loop in ms, 0 before it is known
    ply_maps,       \* "none" or "built"
    ply_msg,        \* the message box shown, or "none"
    ply_frames,     \* frames shown by the playback loop
    ply_pc,         \* "idle", "clicked", "import", "open", "build", "loop", "done"
    \* Interface/live_view.py: the life of the preview capture thread
    pv_threads,     \* the threads started on _preview_loop, in order of creation
    pv_thread,      \* self._preview_thread: an index into pv_threads, 0 for None
    pv_cap,         \* self._cap: the capture handle, 0 for None
    pv_open,        \* the capture handles opened and not yet released
    pv_evt,         \* self._stop_preview_evt is set
    pv_ui,          \* the handler the Tk thread is in: "idle", "join", "release", "none"
    pv_previewing,  \* Stop Preview is the enabled button (Start Preview otherwise)
    \* Interface/record_view.py: the life of the record thread and its writer
    rc_threads,     \* the threads started on _record_loop, in order of creation
    rc_thread,      \* self.record_thread: an index into rc_threads, 0 for None
    rc_cap,         \* self.cap: the capture handle, 0 for None
    rc_caps,        \* the capture handles opened and not yet released
    rc_writer,      \* self.writer: the video writer, 0 for None
    rc_writers,     \* the video writers opened and not yet released
    rc_recording,   \* self.recording
    rc_ui,          \* the handler the Tk thread is in: "idle", "join", "writer", "wnone", "camera", "cnone"
    \* Interface/live_view.py: the fullscreen window and its tick chain
    fs_win,         \* self.fs_win is a window (FALSE for None)
    fs_running,     \* self._fs_running
    fs_pending,     \* the after(16, self._fullscreen_tick) callbacks scheduled and not yet fired
    \* Interface/record_view.py, upload_view.py: the playback loop of the cone player
    lp_view,        \* the view whose worker runs, "none" when none does
    lp_len,         \* the frames the video file holds
    lp_pos,         \* the next frame cap.read() returns
    lp_cap,         \* cap: "none", "open", "released"
    lp_writer,      \* writer: "none", "open", "released"
    lp_win,         \* the OpenCV window: "none", "shown", "destroyed"
    lp_key,         \* the key press waiting for cv2.waitKey: "none", "q", "esc"
    lp_pc           \* "idle", "read", "rewind", "frame", "done", "raised"

mapVars == <<builder, frame_size, canvas_size, pix, map_x, map_y, map_pc>>

decVars == <<dec_pixel, flip_texture, dec_src, dec_out, dec_pc>>

vidVars == <<cam_opened, warp_file, encoded_map, warp_map_x, warp_map_y,
             rotation_angle, alpha, power, rot_matrix, rot_map_x, rot_map_y,
             frame_in, warped, stages, key, captured, error, vid_pc>>

segVars == <<seg_view, seg_kind, seg_frame, seg_mask, seg_result, seg_pc>>

cmpVars == <<cmp_path, cmp_size, cmp_fs, cmp_out, cmp_pc>>

\* The variables of the Interface views and of the calls followed on their own.
cellVars == <<cell_view, cell, cell_latest, lock_holder, prod_pc, prod_frame,
              cons_pc, cons_tick, cons_frame, cam_next, cell_stop>>

plyVars == <<ply_view, ply_input, ply_cap, ply_delay, ply_maps, ply_msg, ply_frames, ply_pc>>

pvVars == <<pv_threads, pv_thread, pv_cap, pv_open, pv_evt, pv_ui, pv_previewing>>

\* The threads, writers and timer callbacks the views start and stop.
rcVars == <<rc_threads, rc_thread, rc_cap, rc_caps, rc_writer, rc_writers,
            rc_recording, rc_ui>>

fsVars == <<fs_win, fs_running, fs_pending>>

lpVars == <<lp_view, lp_len, lp_pos, lp_cap, lp_writer, lp_win, lp_key, lp_pc>>

lifeVars == <<pvVars, rcVars, fsVars, lpVars>>

uiVars == <<segVars, cmpVars, cellVars, plyVars, lifeVars>>

vars == <<mapVars, decVars, vidVars, uiVars>>

----------------------------------------------------------------------------
(* Bounds of the model. *)

MaxCanvas == 6
MaxFrame == 4
\* Width and height of the encoded warp map image.
MaxMapDim == 3
\* Rotate key presses followed in one direction, in the full frame loop and in
\* the full-turn scenario.
MaxRotSteps == 1
MaxTurnSteps == 72
\* Source coordinates of the round trip are sampled every CoordStep tenths of
\* a pixel.
CoordStep == 7

\* Scenario A is followed on every ViewStride-th row and column of the canvas.
ViewStride == 7

\* Pixels of a frame handed to a background removal step.
MaxSegPixels == 3

\* Working sizes and input frame sides of the compositor calls, besides the
\* sizes the scripts use.
MaxWorkingSize == 10
MaxInputSide == 6

----------------------------------------------------------------------------
(* Arithmetic helpers. *)

Abs(n) == IF n < 0 THEN -n ELSE n

Min(a, b) == IF a <= b THEN a ELSE b

Max(a, b) == IF a >= b THEN a ELSE b

\* np.clip(v, lo, hi)
Clip(v, lo, hi) == Min(Max(v, lo), hi)

\* floor(sqrt(n)) by Newton's iteration from above.
RECURSIVE ISqrtFrom(_, _)
ISqrtFrom(n, g) ==
    LET h == (g + n \div g) \div 2
    IN IF h >= g THEN g ELSE ISqrtFrom(n, h)

ISqrt(n) == IF n <= 0 THEN 0 ELSE ISqrtFrom(n, n)

\* The sign of P/B - sqrt(d2) for integers P >= 0, B > 0, d2 >= 0, exact and
\* without forming P*P or B*B*d2.
CmpRatioSqrt(P, B, d2) ==
    LET r0 == ISqrt(d2)
        f == d2 - r0 * r0
        L == P - B * r0
    IN IF L < 0 THEN -1
       ELSE IF L >= B THEN 1
       ELSE LET q == (L * L) \div B
                rem == (L * L) % B
                lhs == 2 * r0 * L + q
                rhs == f * B
            IN IF lhs < rhs THEN -1
               ELSE IF lhs > rhs THEN 1
               ELSE IF rem = 0 THEN 0 ELSE 1

\* Round num/den (den > 0, num >= 0) to the nearest integer, ties to even
\* (cvRound).
RoundHalfEven(num, den) ==
    LET q == num \div den
        r2 == 2 * (num % den)
    IN IF r2 < den THEN q
       ELSE IF r2 > den THEN q + 1
       ELSE IF q % 2 = 0 THEN q ELSE q + 1

----------------------------------------------------------------------------
(* np.arctan2 in fractions of a half turn.                                 *)

\* One half turn (pi).
AngleOne == 1000000000

\* atan(2^-i)/pi * AngleOne, i = 0..23 (CORDIC rotation angles).
AtanTab == <<250000000, 147583618, 77979130, 39583424, 19868524, 9943948,
             4973187, 2486745, 1243392, 621698, 310849, 155425, 77712,
             38856, 19428, 9714, 4857, 2429, 1214, 607, 304, 152, 76, 38>>

RECURSIVE Pow2(_)
Pow2(i) == IF i = 0 THEN 1 ELSE 2 * Pow2(i - 1)

\* CORDIC vectoring: the angle of (x, y), x > 0, accumulated in z.
RECURSIVE Cordic(_, _, _, _)
Cordic(x, y, z, i) ==
    IF i = Len(AtanTab) THEN z
    ELSE LET s == Pow2(i)
         IN IF y > 0
            THEN Cordic(x + (y \div s), y - (x \div s), z + AtanTab[i + 1], i + 1)
            ELSE Cordic(x - (y \div s), y + (x \div s), z - AtanTab[i + 1], i + 1)

\* np.arctan2(dy, dx) / pi * AngleOne, in (-AngleOne, AngleOne].  Exact on the
\* axes and the diagonals (the only lattice directions whose angle is a
\* rational part of pi); within 2e-7 of a half turn elsewhere.
arctan2(dy, dx) ==
    IF dy = 0 THEN (IF dx >= 0 THEN 0 ELSE AngleOne)
    ELSE IF dx = 0 THEN (IF dy > 0 THEN AngleOne \div 2 ELSE -(AngleOne \div 2))
    ELSE LET a == IF Abs(dx) = Abs(dy) THEN AngleOne \div 4
                  ELSE Cordic(Abs(dx) * 1048576, Abs(dy) * 1048576, 0, 0)
             b == IF dx < 0 THEN AngleOne - a ELSE a
         IN IF dy > 0 THEN b ELSE -b

\* floor(a * b / AngleOne) for 0 <= a <= AngleOne, 0 <= b <= 20000.
MulAngleFloor(a, b) ==
    ((a \div 100000) * b + ((a % 100000) * b) \div 100000) \div 10000

\* a * b / AngleOne rounded to the nearest integer.
MulAngleRound(a, b) ==
    ((a \div 100000) * b + 5000 + ((a % 100000) * b) \div 100000) \div 10000

----------------------------------------------------------------------------
(* Cone map builders.                                                      *)

\* Least k >= 0 with k*M >= B*sqrt(d2): ceil(B*sqrt(d2)/M).
CeilRatioSqrt(B, d2, M) ==
    LET s == ISqrt(4096 * d2)
        lo == (B * s + 64 * M - 1) \div (64 * M)
        hi == (B * (s + 1) + 64 * M - 1) \div (64 * M)
    IN CHOOSE k \in lo..hi :
          /\ CmpRatioSqrt(k * M, B, d2) >= 0
          /\ k = lo \/ CmpRatioSqrt((k - 1) * M, B, d2) < 0

\* The integer nearest to A*sqrt(d2)/M, for d2 not a perfect square (the
\* quotient is then irrational and has no tie).
NearestRatioSqrt(A, d2, M) ==
    LET s == ISqrt(4096 * d2)
        lo == (2 * A * s + 64 * M) \div (128 * M)
        hi == (2 * A * (s + 1) + 64 * M) \div (128 * M)
    IN CHOOSE k \in lo..hi :
          /\ CmpRatioSqrt((2 * k + 1) * M, 2 * A, d2) > 0
          /\ CmpRatioSqrt((2 * k - 1) * M, 2 * A, d2) < 0

\* radius > max_radius, with radius = sqrt(dx*dx + dy*dy).
OutsideRadius(dx, dy, max_radius) == dx * dx + dy * dy > max_radius * max_radius

\* The angle test with the two ends left out: -np.pi/2 < angle < np.pi/2.
AngleAccepted_open(angle) == -(AngleOne \div 2) < angle /\ angle < AngleOne \div 2

\* -np.pi/2 <= angle <= np.pi/2
AngleAccepted(angle) == -(AngleOne \div 2) <= angle /\ angle <= AngleOne \div 2

\* norm_angle = (angle + pi/2) / pi, scaled by AngleOne.
NormAngle(angle) == angle + AngleOne \div 2

\* The radius taken as it is: norm_radius = radius/max_radius, rounded up.
FloorNormRadiusTimes_direct(fs, d2, max_radius) == CeilRatioSqrt(fs, d2, max_radius)

\* int(x) of x = norm_radius * fs, norm_radius = 1.0 - radius/max_radius, for a
\* pixel within the radius (x >= 0, so int() is floor).
FloorNormRadiusTimes(fs, d2, max_radius) == fs - CeilRatioSqrt(fs, d2, max_radius)

\* norm_radius * (fs - 1) in 1/32 pixel, A = 32 * (fs - 1).
NormRadiusTimes32(A, d2, max_radius) ==
    LET r0 == ISqrt(d2)
    IN IF r0 * r0 = d2
       THEN RoundHalfEven(A * (max_radius - r0), max_radius)
       ELSE A - NearestRatioSqrt(A, d2, max_radius)

\* One pass of the inner loop body of CircularConeImage.py for pixel (x, y):
\* the (map_x, map_y) entry written, in 1/32 pixel.
ImageMapEntry(fs, cs, x, y) ==
    LET center_x == cs \div 2
        center_y == cs \div 2
        max_radius == cs \div 2
        dx == x - center_x
        dy == y - center_y
        angle == arctan2(dy, dx)
        A == 32 * (fs - 1)
    IN IF OutsideRadius(dx, dy, max_radius) THEN <<0, 0>>
       ELSE IF AngleAccepted(angle)
       THEN <<MulAngleRound(NormAngle(angle), A),
              NormRadiusTimes32(A, dx * dx + dy * dy, max_radius)>>
       ELSE <<0, 0>>

\* The inner loop body of CircularConeLive.py: the entry written, or the
\* entry `old` left in place by `continue`.
LiveMapEntry(fs, cs, x, y, old) ==
    LET center_x == cs \div 2
        center_y == cs \div 2
        max_radius == cs \div 2
        dx == x - center_x
        dy == y - center_y
        angle == arctan2(dy, dx)
        src_x == MulAngleFloor(NormAngle(angle), fs)
        src_y == FloorNormRadiusTimes(fs, dx * dx + dy * dy, max_radius)
    IN IF OutsideRadius(dx, dy, max_radius) THEN old
       ELSE IF AngleAccepted(angle)
       THEN <<32 * Clip(src_x, 0, fs - 1), 32 * Clip(src_y, 0, fs - 1)>>
       ELSE <<0, 0>>

\* build_cone_maps with the np.clip of lines 58-59 dropped.
build_cone_maps_entry_noclip(fs, cs, x, y, old) ==
    LET max_r == cs \div 2
        dx == x - cs \div 2
        dy == y - cs \div 2
        angle == arctan2(dy, dx)
    IN IF OutsideRadius(dx, dy, max_r) THEN old
       ELSE IF AngleAccepted(angle)
       THEN <<32 * MulAngleFloor(NormAngle(angle), fs),
              32 * FloorNormRadiusTimes(fs, dx * dx + dy * dy, max_r)>>
       ELSE <<0, 0>>

\* The inner loop body of live_view.build_cone_maps.
build_cone_maps_entry(fs, cs, x, y, old) ==
    LET cx == cs \div 2
        cy == cs \div 2
        max_r == cs \div 2
        dx == x - cx
        dy == y - cy
        angle == arctan2(dy, dx)
        sx == Clip(MulAngleFloor(NormAngle(angle), fs), 0, fs - 1)
        sy == Clip(FloorNormRadiusTimes(fs, dx * dx + dy * dy, max_r), 0, fs - 1)
    IN IF OutsideRadius(dx, dy, max_r) THEN old
       ELSE IF AngleAccepted(angle) THEN <<32 * sx, 32 * sy>>
       ELSE <<0, 0>>

Builders == {"image", "live", "live_view"}

MapEntry(b, fs, cs, x, y, old) ==
    CASE b = "image" -> ImageMapEntry(fs, cs, x, y)
      [] b = "live" -> LiveMapEntry(fs, cs, x, y, old)
      [] b = "live_view" -> build_cone_maps_entry(fs, cs, x, y, old)

Pixels(cs) == (0..(cs - 1)) \X (0..(cs - 1))

\* np.zeros((canvas_size, canvas_size))
ZeroMap(cs) == [p \in Pixels(cs) |-> 0]

\* No map build is running.
MapIdle ==
    /\ builder = "none"
    /\ canvas_size = 0
    /\ frame_size = 0
    /\ pix = 0
    /\ map_x = <<>>
    /\ map_y = <<>>
    /\ map_pc = "idle"

\* No pixel is being decoded.
DecIdle ==
    /\ dec_pixel = <<>>
    /\ flip_texture = TRUE
    /\ dec_src = <<>>
    /\ dec_out = <<>>
    /\ dec_pc = "idle"

\* CircularConeVideo.py is not running.
VidIdle ==
    /\ cam_opened = FALSE
    /\ warp_file = [channels |-> 0, width |-> 0, height |-> 0, kind |-> "none"]
    /\ encoded_map = <<>>
    /\ warp_map_x = <<>>
    /\ warp_map_y = <<>>
    /\ rotation_angle = 0
    /\ alpha = 10
    /\ power = 10
    /\ rot_matrix = <<>>
    /\ rot_map_x = <<>>
    /\ rot_map_y = <<>>
    /\ frame_in = <<>>
    /\ warped = <<>>
    /\ stages = <<>>
    /\ key = 255
    /\ captured = FALSE
    /\ error = "none"
    /\ vid_pc = "idle"

\* No background removal call is under way.
SegIdle ==
    /\ seg_view = "none"
    /\ seg_kind = "none"
    /\ seg_frame = <<>>
    /\ seg_mask = {}
    /\ seg_result = [status |-> "none", fg |-> <<>>]
    /\ seg_pc = "idle"

\* No compositor call is under way.
CmpIdle ==
    /\ cmp_path = "none"
    /\ cmp_size = <<0, 0>>
    /\ cmp_fs = 0
    /\ cmp_out = <<>>
    /\ cmp_pc = "idle"

\* The Interface views are not in use and no call is followed on its own.
CellIdle ==
    /\ cell_view = "none"
    /\ cell = 0
    /\ cell_latest = 0
    /\ lock_holder = "none"
    /\ prod_pc = "idle"
    /\ prod_frame = 0
    /\ cons_pc = "idle"
    /\ cons_tick = "none"
    /\ cons_frame = 0
    /\ cam_next = 1
    /\ cell_stop = FALSE

\* No cone screen player has been opened.
PlyIdle ==
    /\ ply_view = "none"
    /\ ply_input = <<>>
    /\ ply_cap = "none"
    /\ ply_delay = 0
    /\ ply_maps = "none"
    /\ ply_msg = "none"
    /\ ply_frames = 0
    /\ ply_pc = "idle"

\* live_view.py lines 197-200, 229: no preview has been started.
PvIdle ==
    /\ pv_threads = <<>>
    /\ pv_thread = 0
    /\ pv_cap = 0
    /\ pv_open = {}
    /\ pv_evt = FALSE
    /\ pv_ui = "idle"
    /\ pv_previewing = FALSE

\* record_view.py lines 25-31: no camera is open and nothing is recorded.
RcIdle ==
    /\ rc_threads = <<>>
    /\ rc_thread = 0
    /\ rc_cap = 0
    /\ rc_caps = {}
    /\ rc_writer = 0
    /\ rc_writers = {}
    /\ rc_recording = FALSE
    /\ rc_ui = "idle"

\* live_view.py lines 232, 235: no fullscreen window, no tick scheduled.
FsIdle ==
    /\ fs_win = FALSE
    /\ fs_running = FALSE
    /\ fs_pending = 0

\* No playback loop is running.
LpIdle ==
    /\ lp_view = "none"
    /\ lp_len = 0
    /\ lp_pos = 0
    /\ lp_cap = "none"
    /\ lp_writer = "none"
    /\ lp_win = "none"
    /\ lp_key = "none"
    /\ lp_pc = "idle"

\* No view has started a thread, a writer or a timer chain.
LifeIdle == PvIdle /\ RcIdle /\ FsIdle /\ LpIdle

\* The Interface views are not in use and no call is followed on its own.
UiIdle == SegIdle /\ CmpIdle /\ CellIdle /\ PlyIdle /\ LifeIdle

\* A build starts: the maps are allocated and zeroed.
MapInit ==
    /\ UiIdle
    /\ DecIdle
    /\ VidIdle
    /\ builder \in Builders
    /\ canvas_size \in 2..MaxCanvas
    /\ frame_size \in 1..MaxFrame
    /\ pix = 0
    /\ map_x = ZeroMap(canvas_size)
    /\ map_y = ZeroMap(canvas_size)
    /\ map_pc = "loop"

\* One iteration of `for y ... for x ...`.
BuildPixel ==
    /\ map_pc = "loop"
    /\ pix < canvas_size * canvas_size
    /\ LET y == pix \div canvas_size
           x == pix % canvas_size
           e == MapEntry(builder, frame_size, canvas_size, x, y,
                         <<map_x[<<y, x>>], map_y[<<y, x>>]>>)
       IN /\ map_x' = [map_x EXCEPT ![<<y, x>>] = e[1]]
          /\ map_y' = [map_y EXCEPT ![<<y, x>>] = e[2]]
    /\ pix' = pix + 1
    /\ UNCHANGED <<builder, frame_size, canvas_size, map_pc>>
    /\ UNCHANGED <<decVars, vidVars, uiVars>>

\* The loops end: the maps are complete.
BuildDone ==
    /\ map_pc = "loop"
    /\ pix = canvas_size * canvas_size
    /\ map_pc' = "built"
    /\ UNCHANGED <<builder, frame_size, canvas_size, pix, map_x, map_y>>
    /\ UNCHANGED <<decVars, vidVars, uiVars>>

MapNext == BuildPixel \/ BuildDone

SpecMap == MapInit /\ [][MapNext]_vars

----------------------------------------------------------------------------
(* Claims about the cone map builders (SpecMap).                           *)

\* The pixels the build loop has handled so far.
Handled == {p \in Pixels(canvas_size) : p[1] * canvas_size + p[2] < pix}

\* Squared distance of pixel p = <<y, x>> from the canvas centre.
Dist2(p) ==
    LET c == canvas_size \div 2
    IN (p[2] - c) * (p[2] - c) + (p[1] - c) * (p[1] - c)

WithinRadius(p) == Dist2(p) <= (canvas_size \div 2) * (canvas_size \div 2)

----------------------------------------------------------------------------
(* The encoded warp map decoder of CircularConeVideo.py.                   *)

\* frame_size of CircularConeVideo.py
VideoFrameSize == 300

mapDiv == 4095

LOAD_TEX_COLOR_BIT_DEPTH == 8

\* (hi * (1 << LOAD_TEX_COLOR_BIT_DEPTH) + lo)
Raw16(hi, lo) == hi * Pow2(LOAD_TEX_COLOR_BIT_DEPTH) + lo

\* map_x of one pixel, as a numerator over mapDiv:
\* np.clip(((r * 256 + g) / mapDiv) * frame_size, 0, frame_size - 1)
DecodeX(p) ==
    Clip(Raw16(p[1], p[2]) * VideoFrameSize, 0, (VideoFrameSize - 1) * mapDiv)

\* DecodeY with the flip of lines 42-43 left out.
DecodeY_noflip(p, flip) ==
    Clip(Raw16(p[3], p[4]) * VideoFrameSize, 0, (VideoFrameSize - 1) * mapDiv)

\* DecodeY with the np.clip of line 47 left out.
DecodeY_noclip(p, flip) ==
    LET v == Raw16(p[3], p[4]) * VideoFrameSize
    IN IF flip THEN VideoFrameSize * mapDiv - v ELSE v

\* map_y of one pixel, as a numerator over mapDiv:
\* ((b * 256 + a) / mapDiv) * frame_size, flipped, then clipped.
DecodeY(p, flip) ==
    LET v == Raw16(p[3], p[4]) * VideoFrameSize
        w == IF flip THEN VideoFrameSize * mapDiv - v ELSE v
    IN Clip(w, 0, (VideoFrameSize - 1) * mapDiv)

DecodePixelValue(p, flip) == <<DecodeX(p), DecodeY(p, flip)>>

\* The forward encoding the decoder inverts: a coordinate c (in 1/10 pixel)
\* becomes raw = round(c / frame_size * mapDiv), stored as high and low byte.
EncodeRaw(c10) == RoundHalfEven(c10 * mapDiv, 10 * VideoFrameSize)

EncodeCoord(x10, y10, flip) ==
    LET rawX == EncodeRaw(x10)
        rawY == EncodeRaw(IF flip THEN 10 * VideoFrameSize - y10 ELSE y10)
    IN <<rawX \div 256, rawX % 256, rawY \div 256, rawY % 256>>

\* Channel values tried for an arbitrary pixel: the ends of the byte range and
\* the values around raw = mapDiv (15 * 256 + 255 = 4095).
ByteSamples == {0, 1, 15, 16, 128, 255}

\* Source coordinates in [0, frame_size - 1], in 1/10 pixel.
CoordSamples ==
    {0, 1, 10 * (VideoFrameSize - 1) - 1, 10 * (VideoFrameSize - 1)}
        \cup {c \in 0..(10 * (VideoFrameSize - 1)) : c % CoordStep = 0}

EdgeCoords == {0, 5, 1495, 10 * (VideoFrameSize - 1)}

\* The decoder is handed either an arbitrary pixel or the encoding of a
\* coordinate pair of the source frame.
DecInit ==
    /\ UiIdle
    /\ MapIdle
    /\ VidIdle
    /\ flip_texture \in BOOLEAN
    /\ dec_out = <<>>
    /\ dec_pc = "encoded"
    /\ \/ /\ dec_src = <<>>
          /\ dec_pixel \in ByteSamples \X ByteSamples \X ByteSamples \X ByteSamples
       \/ /\ dec_src \in (CoordSamples \X EdgeCoords) \cup (EdgeCoords \X CoordSamples)
          /\ dec_pixel = EncodeCoord(dec_src[1], dec_src[2], flip_texture)

\* Lines 30-47 for one pixel.
DecodeOne ==
    /\ dec_pc = "encoded"
    /\ dec_out' = DecodePixelValue(dec_pixel, flip_texture)
    /\ dec_pc' = "decoded"
    /\ UNCHANGED <<dec_pixel, flip_texture, dec_src>>
    /\ UNCHANGED <<mapVars, vidVars, uiVars>>

DecNext == DecodeOne

SpecDecode == DecInit /\ [][DecNext]_vars

\* C3: for every 4-channel 8-bit pixel and either flip setting, both decoded
\* coordinates lie in [0, frameSize-1]; raw values above 4095 are clamped.
C3_DecodedInRange ==
    dec_pc = "decoded" =>
        /\ 0 <= dec_out[1] /\ dec_out[1] <= (VideoFrameSize - 1) * mapDiv
        /\ 0 <= dec_out[2] /\ dec_out[2] <= (VideoFrameSize - 1) * mapDiv

\* A decoded pixel whose raw X is above mapDiv and is clamped to
\* frame_size - 1, and whose flipped Y fell below 0 and is clamped to 0.
C3_Witness ==
    /\ dec_pc = "decoded"
    /\ flip_texture
    /\ Raw16(dec_pixel[1], dec_pixel[2]) > mapDiv
    /\ Raw16(dec_pixel[3], dec_pixel[4]) > mapDiv
    /\ dec_out = <<(VideoFrameSize - 1) * mapDiv, 0>>

----------------------------------------------------------------------------
(* CircularConeVideo.py: the warp map file, cv2.imread and the setup.      *)

Pixels2(h, w) == (0..(h - 1)) \X (0..(w - 1))

\* The 12-bit pair (rawX, rawY) authored into pixel (x, y) of a w x h warp map
\* file: a ramp over the image, a constant, or values above mapDiv.
AuthoredRaw(kind, w, h, x, y) ==
    CASE kind = "gradient" ->
            <<((2 * x + 1) * mapDiv) \div (2 * w), ((2 * y + 1) * mapDiv) \div (2 * h)>>
      [] kind = "flat" -> <<2048, 1024>>
      [] kind = "over" -> <<4096 + 1000 * x, 65535 - 1000 * y>>

\* The R, G, B, A channels of a file pixel: rawX in R (high byte) and G (low
\* byte), rawY in B and A.
FilePixel(f, x, y) ==
    LET raw == AuthoredRaw(f.kind, f.width, f.height, x, y)
    IN [R |-> raw[1] \div 256, G |-> raw[1] % 256,
        B |-> raw[2] \div 256, A |-> raw[2] % 256]

\* cv2.imread(warp_map_path, cv2.IMREAD_UNCHANGED): None (ndim 0) for a file
\* that cannot be read, a 2-D array for a single-channel image, else an array
\* of shape (height, width, channels) with the channels in B, G, R, A order.
imread(f) ==
    IF f.kind = "unreadable"
    THEN [ndim |-> 0, shape |-> <<>>, px |-> <<>>]
    ELSE IF f.channels = 1
    THEN [ndim |-> 2, shape |-> <<f.height, f.width>>, px |-> <<>>]
    ELSE [ndim |-> 3, shape |-> <<f.height, f.width, f.channels>>,
          px |-> IF f.channels = 4
                 THEN [p \in Pixels2(f.height, f.width) |->
                          LET c == FilePixel(f, p[2], p[1])
                          IN <<c.B, c.G, c.R, c.A>>]
                 ELSE <<>>]

\* Line 23, `encoded_map is None or encoded_map.shape[2] != 4`: the exception
\* the test ends in, or "none".  shape[2] of a 2-D array is an IndexError.
LoadCheck(m) ==
    IF m.ndim = 0 THEN "ValueError"
    ELSE IF Len(m.shape) < 3 THEN "IndexError"
    ELSE IF m.shape[3] # 4 THEN "ValueError"
    ELSE "none"

\* Lines 30-47 over the whole array.
DecodeMapX(m) == [p \in DOMAIN m.px |-> DecodeX(m.px[p])]

DecodeMapY(m, flip) == [p \in DOMAIN m.px |-> DecodeY(m.px[p], flip)]

WarpKinds == {"gradient", "flat", "over"}

UnreadableFile == [channels |-> 0, width |-> 0, height |-> 0, kind |-> "unreadable"]

\* Files the loader must refuse: unreadable, grayscale, 3-channel colour.
BadFiles ==
    {UnreadableFile}
        \cup {[channels |-> c, width |-> 2, height |-> 2, kind |-> "flat"] : c \in {1, 3}}

GoodFiles(dims) ==
    {[channels |-> 4, width |-> w, height |-> h, kind |-> k] :
        w \in dims, h \in dims, k \in WarpKinds}

VideoInit(files) ==
    /\ UiIdle
    /\ MapIdle
    /\ DecIdle
    /\ cam_opened \in BOOLEAN
    /\ warp_file \in files
    /\ encoded_map = <<>>
    /\ warp_map_x = <<>>
    /\ warp_map_y = <<>>
    /\ rotation_angle = 0
    /\ alpha = 10
    /\ power = 10
    /\ rot_matrix = <<>>
    /\ rot_map_x = <<>>
    /\ rot_map_y = <<>>
    /\ frame_in = <<>>
    /\ warped = <<>>
    /\ stages = <<>>
    /\ key = 255
    /\ captured = FALSE
    /\ error = "none"
    /\ vid_pc = "start"

\* Lines 13-47: open the camera, load and check the warp map, decode it.
VideoSetup ==
    /\ vid_pc = "start"
    /\ IF ~cam_opened
       THEN /\ error' = "IOError"
            /\ vid_pc' = "raised"
            /\ UNCHANGED <<encoded_map, warp_map_x, warp_map_y>>
       ELSE LET m == imread(warp_file)
            IN /\ encoded_map' = m
               /\ error' = LoadCheck(m)
               /\ IF LoadCheck(m) = "none"
                  THEN /\ warp_map_x' = DecodeMapX(m)
                       /\ warp_map_y' = DecodeMapY(m, TRUE)
                       /\ vid_pc' = "loop"
                  ELSE /\ vid_pc' = "raised"
                       /\ UNCHANGED <<warp_map_x, warp_map_y>>
    /\ UNCHANGED <<cam_opened, warp_file, rotation_angle, alpha, power, rot_matrix,
                   rot_map_x, rot_map_y, frame_in, warped, stages, key, captured>>
    /\ UNCHANGED <<mapVars, decVars, uiVars>>

----------------------------------------------------------------------------
(* CircularConeVideo.py: the rotation of the warp map (lines 50-66 and     *)
(* 95-121).                                                                *)

\* Sines and cosines are numerators over TrigOne.
TrigOne == 1000000

\* sin(5k degrees) * TrigOne for k = 0..18
SinTab ==
    <<0, 87156, 173648, 258819, 342020, 422618, 500000, 573576, 642788, 707107,
      766044, 819152, 866025, 906308, 939693, 965926, 984808, 996195, 1000000>>

\* np.sin(np.radians(d)) for d a multiple of 5
SinDeg(d) ==
    LET a == d % 360
    IN IF a <= 90 THEN SinTab[a \div 5 + 1]
       ELSE IF a <= 180 THEN SinTab[(180 - a) \div 5 + 1]
       ELSE IF a <= 270 THEN -SinTab[(a - 180) \div 5 + 1]
       ELSE -SinTab[(360 - a) \div 5 + 1]

CosDeg(d) == SinDeg(d + 90)

\* tablet_scale = (4.0, 3.0)
tablet_scale == <<4, 3>>

\* get_rotation_matrix without the division by tablet_scale.
get_rotation_matrix_unscaled(angle_degrees) ==
    [cos |-> CosDeg(angle_degrees), sin |-> SinDeg(angle_degrees), scale |-> <<1, 1>>]

\* get_rotation_matrix turning by half the angle (to the 5 degrees below).
get_rotation_matrix_halfangle(angle_degrees) ==
    [cos |-> CosDeg(5 * (angle_degrees \div 10)), sin |-> SinDeg(5 * (angle_degrees \div 10)),
     scale |-> tablet_scale]

\* The 2x2 matrix [[cos / sx, -sin / sx], [sin / sy, cos / sy]], kept as the
\* cosine, the sine and the two divisors.
get_rotation_matrix(angle_degrees) ==
    [cos |-> CosDeg(angle_degrees), sin |-> SinDeg(angle_degrees), scale |-> tablet_scale]

\* Lines 100-114 for the pixel (x, y) of a w x h map: centre and normalise the
\* coordinates, apply the matrix, go back to pixels.  The result is
\* (x_rotated, y_rotated) in 1/32 pixel, the precision cv2.remap samples at.
RotatedCoord(m, x, y, w, h) ==
    LET xc == 2 * x - w
        yc == 2 * y - h
        sx == m.scale[1]
        sy == m.scale[2]
    IN <<RoundHalfEven(16 * m.cos * xc * h - 16 * m.sin * yc * w + 16 * w * h * sx * TrigOne,
                       h * sx * TrigOne),
         RoundHalfEven(16 * m.sin * xc * h + 16 * m.cos * yc * w + 16 * w * h * sy * TrigOne,
                       w * sy * TrigOne)>>

\* Bilinear sample of a float map at (sx32, sy32) / 32 with
\* cv2.BORDER_REPLICATE; the result carries the weight 32 * 32.
SampleReplicate(map, w, h, sx32, sy32) ==
    LET ix == sx32 \div 32
        fx == sx32 % 32
        iy == sy32 \div 32
        fy == sy32 % 32
        X0 == Clip(ix, 0, w - 1)
        X1 == Clip(ix + 1, 0, w - 1)
        Y0 == Clip(iy, 0, h - 1)
        Y1 == Clip(iy + 1, 0, h - 1)
    IN (32 - fx) * (32 - fy) * map[<<Y0, X0>>] + fx * (32 - fy) * map[<<Y0, X1>>]
         + (32 - fx) * fy * map[<<Y1, X0>>] + fx * fy * map[<<Y1, X1>>]

\* The rotation applied to the map the frame before was warped with, once
\* there is one, instead of the decoded base map.
RotateMap_cumulative(map, m, w, h) ==
    LET prev == IF map = warp_map_x THEN rot_map_x ELSE rot_map_y
        from == IF prev = <<>> THEN map ELSE [p \in DOMAIN prev |-> prev[p] \div 1024]
    IN [p \in Pixels2(h, w) |->
           LET c == RotatedCoord(m, p[2], p[1], w, h)
           IN SampleReplicate(from, w, h, c[1], c[2])]

\* Lines 117-121: cv2.remap(warp_map, x_rotated, y_rotated, INTER_LINEAR,
\* BORDER_REPLICATE) of an h x w map; values are numerators over
\* mapDiv * 1024.
RotateMap(map, m, w, h) ==
    [p \in Pixels2(h, w) |->
        LET c == RotatedCoord(m, p[2], p[1], w, h)
        IN SampleReplicate(map, w, h, c[1], c[2])]

----------------------------------------------------------------------------
(* The stages a frame goes through.  A frame is grey (its three channels   *)
(* are equal); before the remap it is a centred block of one value on      *)
(* black, after the remap a value per output pixel.  Each stage appends    *)
(* its name to the trace the frame carries.                                *)

\* Camera frames are uniformly black or white.
FrameValues == {0, 255}

\* cv2.resize(img, (0, 0), fx = 0.6, fy = 0.6): the new side is
\* cvRound(side * 0.6).
ScaledSide(side) == RoundHalfEven(6 * side, 10)

\* The pixel (x, y) of a block image: the value v inside the pasted block
\* [x0, x0 + bw) x [y0, y0 + bh), black around it.
BlockAt(img, x, y) ==
    IF /\ img.x0 <= x /\ x < img.x0 + img.bw
       /\ img.y0 <= y /\ y < img.y0 + img.bh
    THEN img.v
    ELSE 0

\* Padded with the offsets rounded up instead of down.
Padded_ceil(fs, w, h, v) ==
    [size |-> fs, x0 |-> (fs - w + 1) \div 2, y0 |-> (fs - h + 1) \div 2, bw |-> w, bh |-> h, v |-> v]

\* padded[y_off : y_off + h, x_off : x_off + w] = scaled, for a scaled
\* image of w x h pixels of value v and a black square of side fs.
Padded(fs, w, h, v) ==
    [size |-> fs, x0 |-> (fs - w) \div 2, y0 |-> (fs - h) \div 2, bw |-> w, bh |-> h, v |-> v]

\* CircularConeVideo.py lines 76-93: resize to frame_size, keep the pixels of
\* the segmentation mask, scale by 0.6 and paste centred on black.
VideoComposite(v, inMask, fs) ==
    [img |-> Padded(fs, ScaledSide(fs), ScaledSide(fs), IF inMask THEN v ELSE 0),
     trace |-> <<"composite">>]

\* The mid-grey pixel value of the brightness scenario.
MidGrey == 128

\* floor(1000 * 255 * (MidGrey / 255) ^ (p10 / 10)) for p10 = 1 .. 30:
\* np.power(frame_float, power) * 255.0 of line 125 for a mid-grey pixel.
PowerTab ==
    <<238016, 222164, 207367, 193556, 180665, 168632, 157401, 146918, 137133, 128000,
      119474, 111517, 104090, 97157, 90686, 84647, 79009, 73747, 68835, 64250,
      59971, 55977, 52249, 48769, 45521, 42489, 39659, 37018, 34552, 32251>>

\* The brightness adjustment with 1 / alpha in the place of alpha.
BrightnessValue_inverse(v, a10, p10) ==
    IF v = 0 THEN 0
    ELSE IF v = MidGrey THEN Min((10 * PowerTab[p10]) \div (a10 * 1000), 255)
    ELSE Clip((10 * 255) \div a10, 0, 255)

\* alpha * (v / 255) ^ power * 255, clipped to [0, 255] and truncated, for
\* v = 0, mid-grey or 255 and alpha, power in tenths (power > 0).
BrightnessValue(v, a10, p10) ==
    IF v = 0 THEN 0
    ELSE IF v = MidGrey THEN Min((a10 * PowerTab[p10]) \div 10000, 255)
    ELSE Clip((a10 * 255) \div 10, 0, 255)

\* Lines 124-126.
BrightnessAdjust(f, a10, p10) ==
    [img |-> [f.img EXCEPT !.v = BrightnessValue(f.img.v, a10, p10)],
     trace |-> Append(f.trace, "brightness")]

\* cv2.remap of an 8-bit image at (sx32, sy32) / 32, INTER_LINEAR with
\* BORDER_CONSTANT: fixed-point weights of 15 bits, rounded.
Sample8(img, sx32, sy32) ==
    LET ix == sx32 \div 32
        fx == sx32 % 32
        iy == sy32 \div 32
        fy == sy32 % 32
        InImage(x, y) == 0 <= x /\ x < img.size /\ 0 <= y /\ y < img.size
        At(x, y) == IF InImage(x, y) THEN BlockAt(img, x, y) ELSE 0
        sum == (32 - fx) * (32 - fy) * At(ix, iy) + fx * (32 - fy) * At(ix + 1, iy)
                 + (32 - fx) * fy * At(ix, iy + 1) + fx * fy * At(ix + 1, iy + 1)
    IN (32 * sum + 16384) \div 32768

\* Lines 129-130: cv2.remap(frame_adjusted, rot_map_x, rot_map_y) with maps
\* whose values are numerators over mapDiv * 1024.
VideoRemap(f, mx, my) ==
    [img |-> [p \in DOMAIN mx |->
                 Sample8(f.img, RoundHalfEven(mx[p], mapDiv * 32),
                         RoundHalfEven(my[p], mapDiv * 32))],
     trace |-> Append(f.trace, "remap")]

\* VideoProcess with the brightness adjustment applied to the warped frame
\* instead of the frame to be warped.
VideoProcess_brightnessLast(v, inMask, mx, my, a10, p10) ==
    LET f == VideoRemap(VideoComposite(v, inMask, VideoFrameSize), mx, my)
    IN [img |-> [p \in DOMAIN f.img |-> BrightnessValue(f.img[p], a10, p10)],
        trace |-> Append(f.trace, "brightness")]

\* Lines 76-130 for one camera frame.
VideoProcess(v, inMask, mx, my, a10, p10) ==
    VideoRemap(BrightnessAdjust(VideoComposite(v, inMask, VideoFrameSize), a10, p10), mx, my)

\* ord() of the bound keys.
Ord ==
    [q |-> 113, r |-> 114, t |-> 116, plus |-> 43, equals |-> 61, minus |-> 45,
     lbracket |-> 91, rbracket |-> 93]

\* cv2.waitKey(1): -1 without a key, else the key code; 27 (Esc) and 120 (x)
\* are not bound.
WaitKeys == {-1, 27, 120} \cup {Ord[n] : n \in DOMAIN Ord}

RotateKeys == {-1, Ord.r, Ord.t}

\* The rotate keys with the two directions exchanged.
RotationAfter_swapped(angle, kk) ==
    IF kk = Ord.r THEN angle + 5
    ELSE IF kk = Ord.t THEN angle - 5
    ELSE angle

\* Lines 140-145: rotation_angle after the key kk.
RotationAfter(angle, kk) ==
    IF kk = Ord.r THEN angle - 5
    ELSE IF kk = Ord.t THEN angle + 5
    ELSE angle

\* The alpha keys without min(..., 3.0) and max(..., 0.1).
AlphaAfter_noclamp(a10, kk) ==
    IF kk = Ord.plus \/ kk = Ord.equals THEN a10 + 1
    ELSE IF kk = Ord.minus THEN a10 - 1
    ELSE a10

\* Lines 146-151: alpha after the key kk, in tenths.
AlphaAfter(a10, kk) ==
    IF kk = Ord.plus \/ kk = Ord.equals THEN Min(a10 + 1, 30)
    ELSE IF kk = Ord.minus THEN Max(a10 - 1, 1)
    ELSE a10

\* Lines 152-157: power after the key kk, in tenths.
PowerAfter(p10, kk) ==
    IF kk = Ord.lbracket THEN Max(p10 - 1, 1)
    ELSE IF kk = Ord.rbracket THEN Min(p10 + 1, 30)
    ELSE p10

\* Lines 70-157: one pass of the loop for a frame the camera delivered.
VideoFrameOf(vals, keys, maxSteps) ==
    /\ vid_pc = "loop"
    /\ LET w == encoded_map.shape[2]
           h == encoded_map.shape[1]
           m == get_rotation_matrix(-rotation_angle)
           rx == RotateMap(warp_map_x, m, w, h)
           ry == RotateMap(warp_map_y, m, w, h)
       IN /\ rot_matrix' = m
          /\ rot_map_x' = rx
          /\ rot_map_y' = ry
          /\ \E v \in vals, inMask \in BOOLEAN :
                LET f == VideoProcess(v, inMask, rx, ry, alpha, power)
                IN /\ frame_in' = <<v, inMask, alpha, power>>
                   /\ warped' = f.img
                   /\ stages' = f.trace
    /\ \E k \in keys :
          LET kk == k % 256
          IN /\ key' = kk
             /\ vid_pc' = IF kk = Ord.q THEN "done" ELSE "loop"
             /\ rotation_angle' = RotationAfter(rotation_angle, kk)
             /\ alpha' = AlphaAfter(alpha, kk)
             /\ power' = PowerAfter(power, kk)
    /\ Abs(rotation_angle') <= 5 * maxSteps
    /\ captured' = TRUE
    /\ UNCHANGED <<cam_opened, warp_file, encoded_map, warp_map_x, warp_map_y, error>>
    /\ UNCHANGED <<mapVars, decVars, uiVars>>

\* The pass for a frame that is black or white inside the subject.
VideoFrame(keys, maxSteps) == VideoFrameOf(FrameValues, keys, maxSteps)

\* Lines 71-73: the camera delivers no frame and the loop ends.
VideoReadFail ==
    /\ vid_pc = "loop"
    /\ vid_pc' = "done"
    /\ captured' = TRUE
    /\ UNCHANGED <<cam_opened, warp_file, encoded_map, warp_map_x, warp_map_y,
                   rotation_angle, alpha, power, rot_matrix, rot_map_x, rot_map_y,
                   frame_in, warped, stages, key, error>>
    /\ UNCHANGED <<mapVars, decVars, uiVars>>

VideoFrameAnyKey == VideoFrame(WaitKeys, MaxRotSteps)

VideoNext == VideoSetup \/ VideoFrameAnyKey \/ VideoReadFail

\* The video script with every key, a few rotation steps either way.
VideoFiles ==
    BadFiles \cup {[channels |-> 4, width |-> 2, height |-> 2, kind |-> "gradient"]}

SpecVideo == VideoInit(VideoFiles) /\ [][VideoNext]_vars

VideoFrameRotateKey == VideoFrame(RotateKeys, MaxTurnSteps)

TurnNext == VideoSetup \/ VideoFrameRotateKey \/ VideoReadFail

\* The video script with the rotate keys only, up to a full turn either way.
SpecTurn == VideoInit(GoodFiles(1..MaxMapDim)) /\ [][TurnNext]_vars

----------------------------------------------------------------------------
(* Claims about CircularConeVideo.py.                                      *)

\* The step is a pass of the frame loop that processed a frame (and not the
\* failed cap.read() that ends the loop).
FrameStep == vid_pc = "loop" /\ (vid_pc' = "loop" \/ key' = Ord.q)

\* The rotation angle the last processed frame was warped with: the key read
\* after the warp has already moved rotation_angle.
AngleUsed == rotation_angle - (RotationAfter(0, key))

BadWarpFile == warp_file.kind = "unreadable" \/ warp_file.channels # 4

\* C5: once the setup has run on an unreadable or non-4-channel warp map
\* file, the script has ended in the format error (the ValueError of line 24)
\* before any frame was captured, and no map was decoded.
C5_FormatErrorBeforeFirstFrame ==
    (cam_opened /\ vid_pc # "start" /\ BadWarpFile) =>
        /\ vid_pc = "raised"
        /\ error = "ValueError"
        /\ ~captured
        /\ warp_map_x = <<>>
        /\ warp_map_y = <<>>

\* C6 as stated: a frame warped at rotation angle 0 uses a rotated map that
\* equals the decoded base map at every pixel, within one source pixel.
C6_ZeroRotationIsIdentity ==
    (rot_map_x # <<>> /\ AngleUsed = 0) =>
        \A p \in DOMAIN rot_map_x :
            /\ Abs(rot_map_x[p] - 1024 * warp_map_x[p]) <= 1024 * mapDiv
            /\ Abs(rot_map_y[p] - 1024 * warp_map_y[p]) <= 1024 * mapDiv

\* The base map read at the position the 4:3 tablet scale alone sends the
\* pixel (x, y) of a w x h map to: (x / 4 + 3 w / 8, y / 3 + h / 3).
TabletContracted(map, w, h) ==
    [p \in Pixels2(h, w) |->
        SampleReplicate(map, w, h, 8 * p[2] + 12 * w, RoundHalfEven(32 * (p[1] + h), 3))]

\* C6 (amended): at rotation angle 0 the rotated map is the base map
\* resampled under the fixed 4:3 tablet contraction about the map centre; it
\* reproduces the base map when the base map is constant.
C6_ZeroRotationContracts ==
    (rot_map_x # <<>> /\ AngleUsed = 0) =>
        LET w == encoded_map.shape[2]
            h == encoded_map.shape[1]
        IN /\ rot_map_x = TabletContracted(warp_map_x, w, h)
           /\ rot_map_y = TabletContracted(warp_map_y, w, h)
           /\ warp_file.kind = "flat" =>
                 \A p \in DOMAIN rot_map_x :
                     /\ rot_map_x[p] = 1024 * warp_map_x[p]
                     /\ rot_map_y[p] = 1024 * warp_map_y[p]

\* A frame warped at angle 0 through a non-constant map whose rotated map
\* differs from the base map.
C6_Witness ==
    /\ rot_map_x # <<>>
    /\ AngleUsed = 0
    /\ warp_file.kind = "gradient"
    /\ \E p \in DOMAIN rot_map_x : rot_map_x[p] # 1024 * warp_map_x[p]
    /\ \E p \in DOMAIN rot_map_y : rot_map_y[p] # 1024 * warp_map_y[p]

\* C7: a frame warped after the rotation angle has come to a whole number of
\* turns (72 steps of 5 degrees one way) uses the map used at angle 0, and at
\* any angle the map used is the one of that angle modulo 360.
C7_FullTurnReturns ==
    rot_map_x # <<>> =>
        LET w == encoded_map.shape[2]
            h == encoded_map.shape[1]
            m == get_rotation_matrix(-(AngleUsed % 360))
        IN /\ rot_map_x = RotateMap(warp_map_x, m, w, h)
           /\ rot_map_y = RotateMap(warp_map_y, m, w, h)
           /\ AngleUsed % 360 = 0 =>
                 /\ rot_map_x = TabletContracted(warp_map_x, w, h)
                 /\ rot_map_y = TabletContracted(warp_map_y, w, h)

\* A frame warped at 360 degrees, 72 rotate steps away from the start,
\* through a non-constant map.
C7_Witness ==
    /\ rot_map_x # <<>>
    /\ Abs(AngleUsed) = 360
    /\ AngleUsed % 360 = 0
    /\ warp_file.kind = "gradient"
    /\ warp_file.width > 1
    /\ warp_file.height > 1

\* C8: in every pass of the frame loop alpha and power stay within
\* [0.1, 3.0] (1..30 tenths); a key that would step past a bound leaves the
\* value at the bound, the loop goes on and no error is raised.
C8_BrightnessClamped ==
    [][FrameStep =>
          /\ alpha' \in 1..30
          /\ power' \in 1..30
          /\ error' = "none"
          /\ (alpha = 30 /\ key' \in {Ord.plus, Ord.equals}) => (alpha' = 30 /\ vid_pc' = "loop")
          /\ (alpha = 1 /\ key' = Ord.minus) => (alpha' = 1 /\ vid_pc' = "loop")
          /\ (power = 30 /\ key' = Ord.rbracket) => (power' = 30 /\ vid_pc' = "loop")
          /\ (power = 1 /\ key' = Ord.lbracket) => (power' = 1 /\ vid_pc' = "loop")]_vars

\* The loop is running with alpha at its upper and power at its lower bound
\* after a brightness key.
C8_Witness ==
    /\ vid_pc = "loop"
    /\ alpha = 30
    /\ power = 1
    /\ key \in {Ord.plus, Ord.equals, Ord.lbracket}
    /\ error = "none"

\* C9: a pass of the frame loop changes, for r / t, only the rotation angle
\* by -5 / +5; for + = / -, only alpha by +0.1 / -0.1 (clamped); for ] / [,
\* only power by +0.1 / -0.1 (clamped); for no key, an unbound key or q,
\* none of the three; and the loop ends exactly on q.
C9_OneParameterPerKey ==
    [][FrameStep =>
          /\ key' = Ord.r =>
                rotation_angle' = rotation_angle - 5 /\ UNCHANGED <<alpha, power>>
          /\ key' = Ord.t =>
                rotation_angle' = rotation_angle + 5 /\ UNCHANGED <<alpha, power>>
          /\ key' \in {Ord.plus, Ord.equals} =>
                alpha' = Min(alpha + 1, 30) /\ UNCHANGED <<rotation_angle, power>>
          /\ key' = Ord.minus =>
                alpha' = Max(alpha - 1, 1) /\ UNCHANGED <<rotation_angle, power>>
          /\ key' = Ord.rbracket =>
                power' = Min(power + 1, 30) /\ UNCHANGED <<rotation_angle, alpha>>
          /\ key' = Ord.lbracket =>
                power' = Max(power - 1, 1) /\ UNCHANGED <<rotation_angle, alpha>>
          /\ key' \notin {Ord[n] : n \in DOMAIN Ord} \ {Ord.q} =>
                UNCHANGED <<rotation_angle, alpha, power>>
          /\ (vid_pc' = "done") <=> (key' = Ord.q)]_vars

\* The loop goes on after a rotate-left key moved only the rotation angle.
C9_Witness ==
    /\ vid_pc = "loop"
    /\ key = Ord.r
    /\ rotation_angle = -5
    /\ alpha = 10
    /\ power = 10

----------------------------------------------------------------------------
(* The frame paths that warp through a built cone map: CircularConeImage.py,*)
(* CircularConeLive.py and LiveView._apply_warp of Interface/live_view.py. *)

\* cv2.remap(padded, map_x, map_y, INTER_LINEAR, BORDER_CONSTANT) through a
\* cone map in 1/32 pixel.
ConeRemap(f, mx, my) ==
    [img |-> [p \in DOMAIN mx |-> Sample8(f.img, mx[p], my[p])],
     trace |-> Append(f.trace, "remap")]

\* CircularConeImage.py lines 29-44: keep the pixels of the mask, scale an
\* image of w x h pixels by fit_scale = min(fs / max(h, w), 1.0) * 0.6,
\* truncating the new sizes, and paste it centred on black.
ImageComposite(v, inMask, h, w, fs) ==
    LET M == Max(h, w)
        new_w == IF M <= fs THEN (6 * w) \div 10 ELSE (6 * w * fs) \div (10 * M)
        new_h == IF M <= fs THEN (6 * h) \div 10 ELSE (6 * h * fs) \div (10 * M)
    IN [img |-> Padded(fs, Max(1, new_w), Max(1, new_h), IF inMask THEN v ELSE 0),
        trace |-> <<"composite">>]

\* ImageComposite with subject_scale = 1.0: the subject fills the frame.
ImageProcess_fullframe(v, inMask, h, w, fs, mx, my) ==
    ConeRemap([img |-> Padded(fs, fs, fs, IF inMask THEN v ELSE 0),
               trace |-> <<"composite">>], mx, my)

\* CircularConeImage.py lines 29-79 for the loaded image.
ImageProcess(v, inMask, h, w, fs, mx, my) ==
    ConeRemap(ImageComposite(v, inMask, h, w, fs), mx, my)

\* CircularConeLive.py lines 58-75.
LiveComposite(v, inMask, fs) ==
    [img |-> Padded(fs, ScaledSide(fs), ScaledSide(fs), IF inMask THEN v ELSE 0),
     trace |-> <<"composite">>]

\* CircularConeLive.py lines 58-78 for one camera frame.
LiveProcess(v, inMask, fs, mx, my) == ConeRemap(LiveComposite(v, inMask, fs), mx, my)

\* What the segmentor does to a frame in _apply_warp: there is none, it
\* keeps the frame, it masks the frame away, or it raises.
Segmentations == {"none", "keep", "drop", "raises"}

\* _apply_warp steps 1-3 pasting the scaled frame at the top-left corner.
ApplyWarpComposite_corner(v, seg, fs) ==
    [img |-> [size |-> fs, x0 |-> 0, y0 |-> 0, bw |-> ScaledSide(fs), bh |-> ScaledSide(fs),
              v |-> IF seg = "drop" THEN 0 ELSE v],
     trace |-> <<"composite">>]

\* _apply_warp steps 1-3 (lines 474-494): without a segmentor and when the
\* segmentor raises, the frame is used as it is.
ApplyWarpComposite(v, seg, fs) ==
    [img |-> Padded(fs, ScaledSide(fs), ScaledSide(fs), IF seg = "drop" THEN 0 ELSE v),
     trace |-> <<"composite">>]

\* cv2.convertScaleAbs(v, alpha, beta) for a grey value: |alpha * v + beta|
\* rounded and saturated, alpha in tenths.
ConvertScaleAbs(v, alpha10, beta) ==
    Min(RoundHalfEven(Abs(alpha10 * v + 10 * beta), 10), 255)

\* enhance_saturation_contrast: a grey pixel has saturation 0, which the
\* saturation scale leaves at 0; then contrast and brightness.
enhance_saturation_contrast(f, saturation_scale10, contrast_alpha10, brightness_beta) ==
    [img |-> [p \in DOMAIN f.img |->
                 ConvertScaleAbs(f.img[p], contrast_alpha10, brightness_beta)],
     trace |-> Append(f.trace, "grading")]

\* _apply_warp averaging its result with the frame it returned before.
ApplyWarpProcess_blend(v, seg, fs, mx, my) ==
    LET f == enhance_saturation_contrast(ConeRemap(ApplyWarpComposite(v, seg, fs), mx, my),
                                         14, 18, -25)
    IN [img |-> [p \in DOMAIN f.img |->
                    IF warped = <<>> THEN f.img[p] ELSE (f.img[p] + warped[p]) \div 2],
        trace |-> f.trace]

\* _apply_warp (lines 463-510) on one camera frame.
ApplyWarpProcess(v, seg, fs, mx, my) ==
    enhance_saturation_contrast(ConeRemap(ApplyWarpComposite(v, seg, fs), mx, my), 14, 18, -25)

\* The variables of vidVars a cone-map frame path leaves alone.
vidRest ==
    <<cam_opened, warp_file, encoded_map, warp_map_x, warp_map_y, rotation_angle,
      alpha, power, rot_matrix, rot_map_x, rot_map_y, captured, error, vid_pc>>

\* Sides of the images handed to CircularConeImage.py.
ImageSides == {1, MaxFrame, 2 * MaxFrame}

\* CircularConeImage.py steps 2, 3, 5 and 6 once the map is built.
ConeImageWarp ==
    /\ builder = "image"
    /\ map_pc = "built"
    /\ \E v \in FrameValues, inMask \in BOOLEAN, h \in ImageSides, w \in ImageSides :
          LET f == ImageProcess(v, inMask, h, w, frame_size, map_x, map_y)
          IN /\ frame_in' = <<v, inMask, h, w>>
             /\ warped' = f.img
             /\ stages' = f.trace
    /\ map_pc' = "saved"
    /\ UNCHANGED <<builder, frame_size, canvas_size, pix, map_x, map_y, key>>
    /\ UNCHANGED <<decVars, vidRest, uiVars>>

\* CircularConeLive.py lines 54-82: one pass of the main loop for a frame
\* the camera delivered.
ConeLiveFrame ==
    /\ builder = "live"
    /\ map_pc = "built"
    /\ \E v \in FrameValues, inMask \in BOOLEAN :
          LET f == LiveProcess(v, inMask, frame_size, map_x, map_y)
          IN /\ frame_in' = <<v, inMask>>
             /\ warped' = f.img
             /\ stages' = f.trace
    /\ \E k \in {-1, Ord.q, Ord.r} :
          /\ key' = k % 256
          /\ map_pc' = IF k % 256 = Ord.q THEN "done" ELSE "built"
    /\ UNCHANGED <<builder, frame_size, canvas_size, pix, map_x, map_y>>
    /\ UNCHANGED <<decVars, vidRest, uiVars>>

\* CircularConeLive.py lines 55-56: no frame, the loop ends.
ConeLiveReadFail ==
    /\ builder = "live"
    /\ map_pc = "built"
    /\ map_pc' = "done"
    /\ UNCHANGED <<builder, frame_size, canvas_size, pix, map_x, map_y>>
    /\ UNCHANGED <<decVars, vidVars, uiVars>>

\* LiveView._apply_warp on a camera frame, with the maps of build_cone_maps.
ApplyWarp ==
    /\ builder = "live_view"
    /\ map_pc = "built"
    /\ \E v \in FrameValues, seg \in Segmentations :
          LET f == ApplyWarpProcess(v, seg, frame_size, map_x, map_y)
          IN /\ frame_in' = <<v, seg>>
             /\ warped' = f.img
             /\ stages' = f.trace
    /\ UNCHANGED <<mapVars, key>>
    /\ UNCHANGED <<decVars, vidRest, uiVars>>

PipelineNext ==
    \/ MapNext
    \/ ConeImageWarp
    \/ ConeLiveFrame
    \/ ConeLiveReadFail
    \/ ApplyWarp
    \/ VideoSetup
    \/ VideoFrameRotateKey
    \/ VideoReadFail

\* Every script that warps frames: the three that build a cone map, and the
\* video script with its decoded and rotated map.
SpecPipeline == (MapInit \/ VideoInit(VideoFiles)) /\ [][PipelineNext]_vars

\* C10 as stated: every warped frame went through composite, brightness
\* pre-adjustment, geometric remap and saturation/contrast grading, in this
\* order and with none left out, whichever script warped it.
C10_AllStagesInOrder ==
    stages # <<>> => stages = <<"composite", "brightness", "remap", "grading">>

\* C10 (amended): every warped frame went through composite and then the
\* geometric remap; the brightness pre-adjustment runs only in
\* CircularConeVideo.py, between the two; the grading runs only in
\* _apply_warp, after the remap; no stage runs before one that precedes it
\* in the order composite, brightness, remap, grading.
C10_StagesInRelativeOrder ==
    stages # <<>> =>
        stages = CASE vid_pc # "idle" -> <<"composite", "brightness", "remap">>
                   [] builder = "live_view" -> <<"composite", "remap", "grading">>
                   [] builder \in {"image", "live"} -> <<"composite", "remap">>

\* The video script has warped a white frame that the mask kept: brightness
\* ran between composite and remap and some output pixel is lit.
C10_Witness ==
    /\ vid_pc = "loop"
    /\ stages = <<"composite", "brightness", "remap">>
    /\ \E p \in DOMAIN warped : warped[p] > 0

----------------------------------------------------------------------------
(* Scenario A: CircularConeImage.py on a 300 x 300 all-white image that    *)
(* the segmentation keeps whole.  Every output pixel is computed from its  *)
(* own map entry alone, so the run is followed one output pixel at a time, *)
(* over a grid of the canvas.                                              *)

\* frame_size and canvas_size of CircularConeImage.py
ImageFrameSize == 300

ImageCanvasSize == 600

\* Canvas rows and columns looked at: every ViewStride-th, the edges and the
\* ones about the centre.
ViewCoords ==
    {c \in 0..(ImageCanvasSize - 1) : c % ViewStride = 0}
        \cup {0, ImageCanvasSize \div 2 - 1, ImageCanvasSize \div 2,
              ImageCanvasSize \div 2 + 1, ImageCanvasSize - 1}

ScenarioInit ==
    /\ UiIdle
    /\ DecIdle
    /\ VidIdle
    /\ builder = "image"
    /\ frame_size = ImageFrameSize
    /\ canvas_size = ImageCanvasSize
    /\ pix \in {y * ImageCanvasSize + x : x \in ViewCoords, y \in ViewCoords}
    /\ map_x = <<>>
    /\ map_y = <<>>
    /\ map_pc = "scenario"

\* Lines 29-79 for the output pixel pix: its map entry, and the remap of the
\* composited white image through it.
ScenarioPixel ==
    /\ map_pc = "scenario"
    /\ LET y == pix \div canvas_size
           x == pix % canvas_size
           e == ImageMapEntry(frame_size, canvas_size, x, y)
           mx == [p \in {<<y, x>>} |-> e[1]]
           my == [p \in {<<y, x>>} |-> e[2]]
           f == ImageProcess(255, TRUE, ImageFrameSize, ImageFrameSize, frame_size, mx, my)
       IN /\ map_x' = mx
          /\ map_y' = my
          /\ frame_in' = <<255, TRUE, ImageFrameSize, ImageFrameSize>>
          /\ warped' = f.img
          /\ stages' = f.trace
    /\ map_pc' = "saved"
    /\ UNCHANGED <<builder, frame_size, canvas_size, pix, key>>
    /\ UNCHANGED <<decVars, vidRest, uiVars>>

ScenarioNext == ScenarioPixel

SpecScenarioA == ScenarioInit /\ [][ScenarioNext]_vars

\* Offsets of an output pixel <<y, x>> from the canvas centre.
FromCentre(p) == [dx |-> p[2] - ImageCanvasSize \div 2, dy |-> p[1] - ImageCanvasSize \div 2]

InDisc(p) ==
    LET c == FromCentre(p)
    IN c.dx * c.dx + c.dy * c.dy <= (ImageCanvasSize \div 2) * (ImageCanvasSize \div 2)

\* The upper semicircle: rows at or above the centre row (image rows grow
\* downwards).
InUpperSemicircle(p) == InDisc(p) /\ FromCentre(p).dy <= 0

\* The half disc of the accepted angles [-pi/2, pi/2]: columns at or right
\* of the centre column.
InRightSemicircle(p) == InDisc(p) /\ FromCentre(p).dx >= 0

\* C2 as stated: in the output of scenario A every pixel outside the upper
\* semicircle of radius 300 about the canvas centre is exactly black.
C2_BlackOutsideUpperSemicircle ==
    map_pc = "saved" =>
        \A p \in DOMAIN warped : ~InUpperSemicircle(p) => warped[p] = 0

\* C2 (amended): in the output of scenario A every pixel outside the right
\* semicircle of radius 300 about the canvas centre - the half disc of the
\* angles atan2(dy, dx) in [-pi/2, pi/2] - is exactly black.
C2_BlackOutsideRightSemicircle ==
    map_pc = "saved" =>
        \A p \in DOMAIN warped : ~InRightSemicircle(p) => warped[p] = 0

\* An output pixel inside the disc, in the upper but not in the right
\* semicircle, has been warped and is black, its map entry being (0, 0).
C2_Witness ==
    /\ map_pc = "saved"
    /\ frame_size = ImageFrameSize
    /\ \E p \in DOMAIN warped :
          /\ InUpperSemicircle(p)
          /\ ~InRightSemicircle(p)
          /\ map_x[p] = 0
          /\ map_y[p] = 0
          /\ warped[p] = 0

----------------------------------------------------------------------------
(* Interface: the background removal step of a frame, in                   *)
(* LiveView._apply_warp and in the _segment_person helpers of the record   *)
(* and upload views.  A frame is a value per pixel, the segmentor's answer *)
(* the set of pixels it keeps.                                             *)

SegViews == {"live_view", "record_view", "upload_view"}

\* No segmentor (None), one that answers with a mask, one whose process()
\* raises.
SegKinds == {"none", "masks", "raises"}

SegPixelIds == 1..MaxSegPixels

\* fg = zeros_like(sq); fg[mask] = sq[mask]  /  bitwise_and(sq, sq, mask)
KeepMasked(frame, mask) == [i \in DOMAIN frame |-> IF i \in mask THEN frame[i] ELSE 0]

\* live_view.py lines 477-488: without a segmentor, and when process()
\* raises inside the try, the square frame is the foreground.
apply_warp_segment(kind, frame, mask) ==
    CASE kind = "none" -> [status |-> "returned", fg |-> frame]
      [] kind = "raises" -> [status |-> "returned", fg |-> frame]
      [] kind = "masks" -> [status |-> "returned", fg |-> KeepMasked(frame, mask)]

\* record_view.py lines 265-275: no try around segmentor.process.
record_segment_person(kind, frame, mask) ==
    CASE kind = "none" -> [status |-> "returned", fg |-> frame]
      [] kind = "raises" -> [status |-> "raised", fg |-> <<>>]
      [] kind = "masks" -> [status |-> "returned", fg |-> KeepMasked(frame, mask)]

\* upload_view.py lines 251-261: the same helper.
upload_segment_person(kind, frame, mask) ==
    CASE kind = "none" -> [status |-> "returned", fg |-> frame]
      [] kind = "raises" -> [status |-> "raised", fg |-> <<>>]
      [] kind = "masks" -> [status |-> "returned", fg |-> KeepMasked(frame, mask)]

\* A view hands a frame to its background removal step.
SegInit ==
    /\ MapIdle
    /\ DecIdle
    /\ VidIdle
    /\ CmpIdle
    /\ CellIdle
    /\ PlyIdle
    /\ LifeIdle
    /\ seg_view \in SegViews
    /\ seg_kind \in SegKinds
    /\ seg_frame \in [SegPixelIds -> FrameValues]
    /\ seg_mask \in IF seg_kind = "masks" THEN SUBSET SegPixelIds ELSE {{}}
    /\ seg_result = [status |-> "none", fg |-> <<>>]
    /\ seg_pc = "called"

LiveViewSegment ==
    /\ seg_pc = "called"
    /\ seg_view = "live_view"
    /\ seg_result' = apply_warp_segment(seg_kind, seg_frame, seg_mask)
    /\ seg_pc' = seg_result'.status
    /\ UNCHANGED <<seg_view, seg_kind, seg_frame, seg_mask>>
    /\ UNCHANGED <<mapVars, decVars, vidVars, cmpVars, cellVars, plyVars, lifeVars>>

RecordSegmentPerson ==
    /\ seg_pc = "called"
    /\ seg_view = "record_view"
    /\ seg_result' = record_segment_person(seg_kind, seg_frame, seg_mask)
    /\ seg_pc' = seg_result'.status
    /\ UNCHANGED <<seg_view, seg_kind, seg_frame, seg_mask>>
    /\ UNCHANGED <<mapVars, decVars, vidVars, cmpVars, cellVars, plyVars, lifeVars>>

UploadSegmentPerson ==
    /\ seg_pc = "called"
    /\ seg_view = "upload_view"
    /\ seg_result' = upload_segment_person(seg_kind, seg_frame, seg_mask)
    /\ seg_pc' = seg_result'.status
    /\ UNCHANGED <<seg_view, seg_kind, seg_frame, seg_mask>>
    /\ UNCHANGED <<mapVars, decVars, vidVars, cmpVars, cellVars, plyVars, lifeVars>>

SegNext == LiveViewSegment \/ RecordSegmentPerson \/ UploadSegmentPerson

SpecSegment == SegInit /\ [][SegNext]_vars

\* C11: when there is no segmentor or its call raises, the background
\* removal step of every view still returns, and returns the unsegmented
\* frame, from which the output frame is made.
C11_SegmentationFailureStillYieldsFrame ==
    (seg_pc \notin {"idle", "called"} /\ seg_kind \in {"none", "raises"}) =>
        /\ seg_result.status = "returned"
        /\ seg_result.fg = seg_frame

----------------------------------------------------------------------------
(* The compositors on their own: every script's resize / scale / paste for *)
(* a range of working sizes and input frame sizes.                         *)

CompositePaths == {"video", "live", "live_view", "image"}

\* FRAME_SIZE of live_view.py
FRAME_SIZE == 400

\* frame_size 300 of the scripts, FRAME_SIZE of live_view, small sizes.
WorkingSizes == (1..MaxWorkingSize) \cup {VideoFrameSize, FRAME_SIZE}

\* Sides of input frames: small ones, ones about the working sizes, a large one.
InputSides == (1..MaxInputSide) \cup {VideoFrameSize - 1, VideoFrameSize, 1080}

CmpInit ==
    /\ MapIdle
    /\ DecIdle
    /\ VidIdle
    /\ SegIdle
    /\ CellIdle
    /\ PlyIdle
    /\ LifeIdle
    /\ cmp_path \in CompositePaths
    /\ cmp_size \in InputSides \X InputSides
    /\ cmp_fs \in WorkingSizes
    /\ cmp_out = <<>>
    /\ cmp_pc = "called"

\* CircularConeVideo.py lines 76-93 on a white frame the mask keeps.
CompositeVideo ==
    /\ cmp_pc = "called"
    /\ cmp_path = "video"
    /\ cmp_out' = VideoComposite(255, TRUE, cmp_fs).img
    /\ cmp_pc' = "done"
    /\ UNCHANGED <<cmp_path, cmp_size, cmp_fs>>
    /\ UNCHANGED <<mapVars, decVars, vidVars, segVars, cellVars, plyVars, lifeVars>>

\* CircularConeLive.py lines 58-75.
CompositeLive ==
    /\ cmp_pc = "called"
    /\ cmp_path = "live"
    /\ cmp_out' = LiveComposite(255, TRUE, cmp_fs).img
    /\ cmp_pc' = "done"
    /\ UNCHANGED <<cmp_path, cmp_size, cmp_fs>>
    /\ UNCHANGED <<mapVars, decVars, vidVars, segVars, cellVars, plyVars, lifeVars>>

\* live_view.py lines 474-496.
CompositeApplyWarp ==
    /\ cmp_pc = "called"
    /\ cmp_path = "live_view"
    /\ cmp_out' = ApplyWarpComposite(255, "keep", cmp_fs).img
    /\ cmp_pc' = "done"
    /\ UNCHANGED <<cmp_path, cmp_size, cmp_fs>>
    /\ UNCHANGED <<mapVars, decVars, vidVars, segVars, cellVars, plyVars, lifeVars>>

\* CircularConeImage.py lines 29-44.
CompositeImage ==
    /\ cmp_pc = "called"
    /\ cmp_path = "image"
    /\ cmp_out' = ImageComposite(255, TRUE, cmp_size[1], cmp_size[2], cmp_fs).img
    /\ cmp_pc' = "done"
    /\ UNCHANGED <<cmp_path, cmp_size, cmp_fs>>
    /\ UNCHANGED <<mapVars, decVars, vidVars, segVars, cellVars, plyVars, lifeVars>>

CmpNext == CompositeVideo \/ CompositeLive \/ CompositeApplyWarp \/ CompositeImage

SpecComposite == CmpInit /\ [][CmpNext]_vars

\* C12: the composited frame is workingSize x workingSize, the pasted
\* subject lies inside it (offsets >= 0), and the right margin exceeds the
\* left one, and the bottom margin the top one, by 0 or 1 pixel.
C12_SubjectCentred ==
    cmp_pc = "done" =>
        LET left == cmp_out.x0
            right == cmp_fs - cmp_out.x0 - cmp_out.bw
            top == cmp_out.y0
            bottom == cmp_fs - cmp_out.y0 - cmp_out.bh
        IN /\ cmp_out.size = cmp_fs
           /\ cmp_out.bw >= 1 /\ cmp_out.bh >= 1
           /\ left >= 0 /\ top >= 0
           /\ right >= 0 /\ bottom >= 0
           /\ right - left \in {0, 1}
           /\ bottom - top \in {0, 1}

\* An image of unequal sides was composited with an odd pixel left over in
\* one direction and none in the other.
C12_Witness ==
    /\ cmp_pc = "done"
    /\ cmp_path = "image"
    /\ cmp_out.bw # cmp_out.bh
    /\ cmp_fs - cmp_out.x0 - cmp_out.bw = cmp_out.x0 + 1
    /\ cmp_fs - cmp_out.y0 - cmp_out.bh = cmp_out.y0

\* The output the frame path of the running script gives for the inputs of
\* the last frame pass and the map now in use.
OutputFor(in) ==
    CASE vid_pc # "idle" ->
            VideoProcess(in[1], in[2], rot_map_x, rot_map_y, in[3], in[4]).img
      [] builder = "live_view" ->
            ApplyWarpProcess(in[1], in[2], frame_size, map_x, map_y).img
      [] builder = "live" ->
            LiveProcess(in[1], in[2], frame_size, map_x, map_y).img
      [] builder = "image" ->
            ImageProcess(in[1], in[2], in[3], in[4], frame_size, map_x, map_y).img

----------------------------------------------------------------------------
(* Scenario C: a mid-grey frame through CircularConeVideo.py while the     *)
(* brightness keys are pressed.                                            *)

BrightnessKeys == {-1, Ord.plus, Ord.minus, Ord.lbracket, Ord.rbracket}

\* A pass of the frame loop for a mid-grey frame, followed by a brightness
\* key or none.
ScenarioCFrame == VideoFrameOf({MidGrey}, BrightnessKeys, 0)

ScenarioCNext == VideoSetup \/ ScenarioCFrame

ScenarioCFiles == {[channels |-> 4, width |-> 2, height |-> 2, kind |-> "gradient"]}

SpecScenarioC == VideoInit(ScenarioCFiles) /\ [][ScenarioCNext]_vars

\* Sum of the pixel values of an image: its mean luminance times its size.
RECURSIVE SumOver(_, _)
SumOver(img, ps) ==
    IF ps = {} THEN 0
    ELSE LET p == CHOOSE q \in ps : TRUE
         IN img[p] + SumOver(img, ps \ {p})

Luminance(img) == SumOver(img, DOMAIN img)

\* C14: for a mid-grey frame and a fixed power the brightness-adjusted pixel
\* value never falls when alpha rises through 0.1 .. 3.0, a frame passed with
\* a larger alpha (same power and map) is nowhere darker than the one before,
\* and the output at alpha 3.0 has a strictly larger mean than at alpha 0.1.
C14_BrightnessMonotoneInAlpha ==
    /\ [](vid_pc = "loop" =>
            /\ \A a \in 1..29 :
                  BrightnessValue(MidGrey, a, power) <= BrightnessValue(MidGrey, a + 1, power)
            /\ BrightnessValue(MidGrey, 1, power) < BrightnessValue(MidGrey, 30, power)
            /\ stages # <<>> =>
                  Luminance(VideoProcess(MidGrey, TRUE, rot_map_x, rot_map_y, 1, power).img)
                     < Luminance(VideoProcess(MidGrey, TRUE, rot_map_x, rot_map_y, 30, power).img))
    /\ [][(/\ stages # <<>>
           /\ frame_in'[1] = frame_in[1]
           /\ frame_in'[2] = frame_in[2]
           /\ frame_in'[4] = frame_in[4]
           /\ frame_in'[3] >= frame_in[3]
           /\ rot_map_x' = rot_map_x /\ rot_map_y' = rot_map_y)
              => \A p \in DOMAIN warped : warped'[p] >= warped[p]]_vars

\* The mid-grey frame has been passed at alpha 3.0 after the "+" key and
\* came out brighter than it comes out at alpha 0.1.
C14_Witness ==
    /\ vid_pc = "loop"
    /\ frame_in = <<MidGrey, TRUE, 30, 10>>
    /\ key = Ord.plus
    /\ Luminance(warped)
          > Luminance(VideoProcess(MidGrey, TRUE, rot_map_x, rot_map_y, 1, 10).img)

----------------------------------------------------------------------------
(* The latest-frame cell: LiveView._last_bgr, written by _preview_loop on  *)
(* the capture thread and read by _preview_tick and _fullscreen_tick on    *)
(* the Tk thread; RecordView.last_frame, written by _record_loop on the    *)
(* record thread and read by _preview_tick on the Tk thread.               *)

\* Frames the camera delivers in a run.
MaxCaptured == 3

CellViews == {"live_view", "record_view"}

\* The capture thread and the tick timer run; the cell is None
\* (live_view.py line 225, record_view.py line 29).
CellInit ==
    /\ MapIdle
    /\ DecIdle
    /\ VidIdle
    /\ SegIdle
    /\ CmpIdle
    /\ PlyIdle
    /\ LifeIdle
    /\ cell_view \in CellViews
    /\ cell = 0
    /\ cell_latest = 0
    /\ lock_holder = "none"
    /\ prod_pc = "capture"
    /\ prod_frame = 0
    /\ cons_pc = "idle"
    /\ cons_tick = "none"
    /\ cons_frame = 0
    /\ cam_next = 1
    /\ cell_stop = FALSE

cellRest == <<mapVars, decVars, vidVars, segVars, cmpVars, plyVars, lifeVars>>

\* A store into the cell that keeps a frame already there.
CellAfterWrite_keepFirst(c, frame) == IF c = 0 THEN frame ELSE c

\* self._last_bgr = frame / self.last_frame = frame.
CellAfterWrite(c, frame) == frame

\* live_view.py lines 359-363, record_view.py lines 208-213: the loop test
\* passed and cap.read() returned.  Without a frame _preview_loop sleeps and
\* tries again, _record_loop breaks.
ProducerCapture ==
    /\ prod_pc = "capture"
    /\ ~cell_stop
    /\ cam_next <= MaxCaptured
    /\ \E ok \in BOOLEAN :
          IF ok
          THEN /\ prod_frame' = cam_next
               /\ cam_next' = cam_next + 1
               /\ prod_pc' = IF cell_view = "live_view" THEN "acquire" ELSE "write"
          ELSE /\ prod_pc' = IF cell_view = "live_view" THEN "capture" ELSE "done"
               /\ UNCHANGED <<prod_frame, cam_next>>
    /\ UNCHANGED <<cell_view, cell, cell_latest, lock_holder, cons_pc, cons_tick,
                   cons_frame, cell_stop>>
    /\ UNCHANGED cellRest

\* live_view.py line 359, record_view.py line 208: the loop test fails.
ProducerExit ==
    /\ prod_pc = "capture"
    /\ cell_stop
    /\ prod_pc' = "done"
    /\ UNCHANGED <<cell_view, cell, cell_latest, lock_holder, prod_frame, cons_pc,
                   cons_tick, cons_frame, cam_next, cell_stop>>
    /\ UNCHANGED cellRest

\* live_view.py line 364: with self._frame_lock (entry).
ProducerAcquire ==
    /\ prod_pc = "acquire"
    /\ lock_holder = "none"
    /\ lock_holder' = "producer"
    /\ prod_pc' = "write"
    /\ UNCHANGED <<cell_view, cell, cell_latest, prod_frame, cons_pc, cons_tick,
                   cons_frame, cam_next, cell_stop>>
    /\ UNCHANGED cellRest

\* live_view.py line 365, record_view.py line 214.
ProducerWrite ==
    /\ prod_pc = "write"
    /\ cell' = CellAfterWrite(cell, prod_frame)
    /\ cell_latest' = prod_frame
    /\ prod_pc' = IF cell_view = "live_view" THEN "release" ELSE "written"
    /\ UNCHANGED <<cell_view, lock_holder, prod_frame, cons_pc, cons_tick,
                   cons_frame, cam_next, cell_stop>>
    /\ UNCHANGED cellRest

\* live_view.py line 364: with self._frame_lock (exit).
ProducerRelease ==
    /\ prod_pc = "release"
    /\ lock_holder' = "none"
    /\ prod_pc' = "capture"
    /\ UNCHANGED <<cell_view, cell, cell_latest, prod_frame, cons_pc, cons_tick,
                   cons_frame, cam_next, cell_stop>>
    /\ UNCHANGED cellRest

\* record_view.py lines 215-217: writer.write(frame), the frame count, sleep.
RecordWriterWrite ==
    /\ prod_pc = "written"
    /\ prod_pc' = "capture"
    /\ UNCHANGED <<cell_view, cell, cell_latest, lock_holder, prod_frame, cons_pc,
                   cons_tick, cons_frame, cam_next, cell_stop>>
    /\ UNCHANGED cellRest

\* live_view.py lines 369-371 and 429-432, record_view.py lines 237-238: a
\* tick of the Tk timer starts.
TickStart ==
    /\ cons_pc = "idle"
    /\ cons_tick' \in IF cell_view = "live_view" THEN {"preview", "fullscreen"}
                      ELSE {"preview"}
    /\ cons_frame' = 0
    /\ cons_pc' = IF cell_view = "live_view" THEN "acquire" ELSE "read"
    /\ UNCHANGED <<cell_view, cell, cell_latest, lock_holder, prod_pc, prod_frame,
                   cam_next, cell_stop>>
    /\ UNCHANGED cellRest

\* live_view.py lines 372 and 433: with self._frame_lock (entry).
ConsumerAcquire ==
    /\ cons_pc = "acquire"
    /\ lock_holder = "none"
    /\ lock_holder' = "consumer"
    /\ cons_pc' = "read"
    /\ UNCHANGED <<cell_view, cell, cell_latest, prod_pc, prod_frame, cons_tick,
                   cons_frame, cam_next, cell_stop>>
    /\ UNCHANGED cellRest

\* live_view.py lines 373-374 and 434-435: frame = self._last_bgr.
\* record_view.py lines 239-243: frame = self.last_frame, and with None
\* there the tick reads the camera itself.
ConsumerRead ==
    /\ cons_pc = "read"
    /\ IF cell_view = "live_view"
       THEN /\ cons_frame' = cell
            /\ cons_pc' = "release"
            /\ UNCHANGED cam_next
       ELSE /\ cons_pc' = "show"
            /\ IF cell # 0
               THEN cons_frame' = cell /\ UNCHANGED cam_next
               ELSE \E ok \in BOOLEAN :
                       IF ok /\ cam_next <= MaxCaptured
                       THEN cons_frame' = cam_next /\ cam_next' = cam_next + 1
                       ELSE cons_frame' = 0 /\ UNCHANGED cam_next
    /\ UNCHANGED <<cell_view, cell, cell_latest, lock_holder, prod_pc, prod_frame,
                   cons_tick, cell_stop>>
    /\ UNCHANGED cellRest

\* live_view.py lines 372 and 433: with self._frame_lock (exit).
ConsumerRelease ==
    /\ cons_pc = "release"
    /\ lock_holder' = "none"
    /\ cons_pc' = "show"
    /\ UNCHANGED <<cell_view, cell, cell_latest, prod_pc, prod_frame, cons_tick,
                   cons_frame, cam_next, cell_stop>>
    /\ UNCHANGED cellRest

\* live_view.py lines 376-389 and 437-460, record_view.py lines 244-255: the
\* frame, if any, is displayed and the next tick is scheduled.
TickShow ==
    /\ cons_pc = "show"
    /\ cons_pc' = "idle"
    /\ cons_tick' = "none"
    /\ UNCHANGED <<cell_view, cell, cell_latest, lock_holder, prod_pc, prod_frame,
                   cons_frame, cam_next, cell_stop>>
    /\ UNCHANGED cellRest

\* live_view.py line 343 (_stop_preview), record_view.py line 221
\* (_stop_recording): a button handler on the Tk thread tells the capture
\* thread to stop.
StopCapture ==
    /\ cons_pc = "idle"
    /\ ~cell_stop
    /\ cell_stop' = TRUE
    /\ UNCHANGED <<cell_view, cell, cell_latest, lock_holder, prod_pc, prod_frame,
                   cons_pc, cons_tick, cons_frame, cam_next>>
    /\ UNCHANGED cellRest

CellNext ==
    \/ ProducerCapture \/ ProducerExit \/ ProducerAcquire \/ ProducerWrite
    \/ ProducerRelease \/ RecordWriterWrite
    \/ TickStart \/ ConsumerAcquire \/ ConsumerRead \/ ConsumerRelease \/ TickShow
    \/ StopCapture

SpecCell == CellInit /\ [][CellNext]_vars

\* C15: the capture thread stores into the cell, and a tick reads it, only
\* while holding the cell's lock, in the live view and in the record view.
C15_CellAccessUnderLock ==
    /\ prod_pc = "write" => lock_holder = "producer"
    /\ cons_pc = "read" => lock_holder = "consumer"

\* C16: in the live view the cell holds the frame stored last and nothing
\* else, a tick reads that frame, and the capture thread's store is held up
\* by nothing but the lock: it needs no tick to have read the frame before.
C16_SingleSlotOverwrite ==
    /\ [](cell_view = "live_view" =>
            /\ cell = cell_latest
            /\ cell \in 0..(cam_next - 1)
            /\ (prod_pc = "acquire" /\ lock_holder = "none") => ENABLED ProducerAcquire
            /\ prod_pc = "write" => ENABLED ProducerWrite)
    /\ [][(cell_view = "live_view" /\ cons_pc = "read" /\ cons_pc' = "release")
             => cons_frame' = cell_latest]_vars

\* A fullscreen tick is still showing frame 1 while the cell already holds
\* frame 3: frame 2 was stored and overwritten without having been read.
C16_Witness ==
    /\ cell_view = "live_view"
    /\ cons_tick = "fullscreen"
    /\ cons_pc = "show"
    /\ cons_frame = 1
    /\ cell = 3

----------------------------------------------------------------------------
(* "Open Cone Screen (process now)" of the record and the upload view:     *)
(* _open_cone_screen_process_now and the worker thread it starts,          *)
(* _cone_player_worker.                                                    *)

\* Frames of the playback loop followed.
MaxPlayed == 2

PlayerViews == {"record_view", "upload_view"}

\* cap.get(cv2.CAP_PROP_FPS) of the files tried: unknown, 10, 30 and 120.
PlayerFps == {0, 10, 30, 120}

\* The parameters of live_view.build_cone_maps (line 37).
BuildConeMapsParams == {"frame_size", "canvas_size"}

\* The keyword arguments the workers pass (record_view.py lines 319-334,
\* upload_view.py lines 149-162).
PlayerBuildKwargs ==
    {"frame_size", "canvas_size", "span_deg", "rotate_deg", "r_inner_frac",
     "r_outer_frac", "center_frac", "radius_frac"}

\* A Python call with keyword arguments raises TypeError when one of them is
\* not a parameter of the function.
CallRaisesTypeError(params, kwargs) == ~(kwargs \subseteq params)

\* record_view.py lines 313-316: the waitKey delay for the file's fps.
PlayerDelay(fps) ==
    LET f == IF fps < 1 THEN 30 ELSE fps
    IN Max(1, 1000 \div Min(60, Max(15, f)))

\* The button has been clicked with some file path in the entry.
PlyInit ==
    /\ MapIdle
    /\ DecIdle
    /\ VidIdle
    /\ SegIdle
    /\ CmpIdle
    /\ CellIdle
    /\ LifeIdle
    /\ ply_view \in PlayerViews
    /\ ply_input \in {in \in [exists : BOOLEAN, opens : BOOLEAN, fps : PlayerFps,
                              import_ok : BOOLEAN, save_copy : BOOLEAN] :
                         in.opens => in.exists}
    /\ ply_cap = "none"
    /\ ply_delay = 0
    /\ ply_maps = "none"
    /\ ply_msg = "none"
    /\ ply_frames = 0
    /\ ply_pc = "clicked"

plyRest == <<mapVars, decVars, vidVars, segVars, cmpVars, cellVars, lifeVars>>

\* record_view.py lines 278-294, upload_view.py lines 110-121.
OpenConeScreenProcessNow ==
    /\ ply_pc = "clicked"
    /\ IF ~ply_input.exists
       THEN /\ ply_msg' = IF ply_view = "record_view"
                          THEN "No recorded video found. Please record and stop first."
                          ELSE "Please choose an existing video file first."
            /\ ply_pc' = "done"
       ELSE /\ ply_pc' = "import"
            /\ UNCHANGED ply_msg
    /\ UNCHANGED <<ply_view, ply_input, ply_cap, ply_delay, ply_maps, ply_frames>>
    /\ UNCHANGED plyRest

\* record_view.py lines 296-407, upload_view.py lines 124-241: the worker,
\* one step per try block and one per pass of the playback loop.
ConePlayerWorker ==
    /\ ply_pc \in {"import", "open", "build", "loop"}
    /\ CASE ply_pc = "import" ->
              /\ IF ply_input.import_ok
                 THEN ply_pc' = "open" /\ UNCHANGED ply_msg
                 ELSE ply_pc' = "done" /\ ply_msg' = "Could not import live_view helpers"
              /\ UNCHANGED <<ply_cap, ply_delay, ply_maps, ply_frames>>
         [] ply_pc = "open" ->
              /\ IF ply_input.opens
                 THEN /\ ply_cap' = "open"
                      /\ ply_delay' = PlayerDelay(ply_input.fps)
                      /\ ply_pc' = "build"
                      /\ UNCHANGED ply_msg
                 ELSE /\ ply_msg' = "Could not open video"
                      /\ ply_pc' = "done"
                      /\ UNCHANGED <<ply_cap, ply_delay>>
              /\ UNCHANGED <<ply_maps, ply_frames>>
         [] ply_pc = "build" ->
              /\ IF CallRaisesTypeError(BuildConeMapsParams, PlayerBuildKwargs)
                 THEN /\ ply_cap' = "released"
                      /\ ply_msg' = "Failed to build warp maps"
                      /\ ply_pc' = "done"
                      /\ UNCHANGED ply_maps
                 ELSE /\ ply_maps' = "built"
                      /\ ply_pc' = "loop"
                      /\ UNCHANGED <<ply_cap, ply_msg>>
              /\ UNCHANGED <<ply_delay, ply_frames>>
         [] ply_pc = "loop" ->
              /\ ply_frames' = Min(ply_frames + 1, MaxPlayed)
              /\ \E k \in {-1, 27, Ord.q} :
                    IF k % 256 \in {27, Ord.q}
                    THEN ply_cap' = "released" /\ ply_pc' = "done"
                    ELSE UNCHANGED <<ply_cap, ply_pc>>
              /\ UNCHANGED <<ply_delay, ply_maps, ply_msg>>
    /\ UNCHANGED <<ply_view, ply_input>>
    /\ UNCHANGED plyRest

PlyNext == OpenConeScreenProcessNow \/ ConePlayerWorker

SpecPlayer == PlyInit /\ [][PlyNext]_vars

\* C17: with a file that exists and opens (and the live_view helpers
\* imported), the worker does not end before the playback loop: once it is
\* past the map build, the maps are built, no error box was shown and the
\* loop is running or has run.
C17_PlayerReachesPlaybackLoop ==
    (/\ ply_input.exists /\ ply_input.opens /\ ply_input.import_ok
     /\ ply_pc \in {"loop", "done"})
        => /\ ply_maps = "built"
           /\ ply_msg = "none"
           /\ (ply_pc = "loop" \/ ply_frames > 0)

----------------------------------------------------------------------------
(* The grading step of LiveView._apply_warp.                               *)

\* C18: each pixel _apply_warp returns is clamp(1.8 * pixel - 25, 0, 255) of
\* the remapped pixel (rounded); a pixel for which 1.8 * pixel - 25 is
\* negative, a black one for instance, comes out as 0.
C18_GradingClampsToRange ==
    (builder = "live_view" /\ stages = <<"composite", "remap", "grading">>) =>
        LET pre == ConeRemap(ApplyWarpComposite(frame_in[1], frame_in[2], frame_size),
                             map_x, map_y).img
            clamped(v) == IF 18 * v - 250 <= 0 THEN 0
                          ELSE Min(RoundHalfEven(18 * v - 250, 10), 255)
        IN \A p \in DOMAIN warped : warped[p] = clamped(pre[p])

----------------------------------------------------------------------------
(* Out-of-domain output pixels of CircularConeImage.py (frame 300, canvas  *)
(* 600) and of LiveView._apply_warp (FRAME_SIZE 400, CANVAS_SIZE 800), one  *)
(* output pixel at a time over a grid of the canvas, for frames of any     *)
(* content.                                                                *)

CANVAS_SIZE == 800

\* Every DomainStride-th canvas row and column is looked at, with the edges
\* and the ones about the centre.
DomainStride == 23

DomainCoords(cs) ==
    {c \in 0..(cs - 1) : c % DomainStride = 0}
        \cup {0, cs \div 2 - 1, cs \div 2, cs \div 2 + 1, cs - 1}

\* Heights and widths of the images handed to CircularConeImage.py.
DomainImageSides == {200, ImageFrameSize, 1080}

DomainInit ==
    /\ UiIdle
    /\ DecIdle
    /\ VidIdle
    /\ builder \in {"image", "live_view"}
    /\ frame_size = IF builder = "image" THEN ImageFrameSize ELSE FRAME_SIZE
    /\ canvas_size = IF builder = "image" THEN ImageCanvasSize ELSE CANVAS_SIZE
    /\ pix \in {y * canvas_size + x : x \in DomainCoords(canvas_size),
                                      y \in DomainCoords(canvas_size)}
    /\ map_x = <<>>
    /\ map_y = <<>>
    /\ map_pc = "view"

\* The frame as it is after the remap and before any grading, for the inputs
\* in of the script b.
Remapped(b, in, fs, mx, my) ==
    IF b = "image"
    THEN ImageProcess(in[1], in[2], in[3], in[4], fs, mx, my).img
    ELSE ConeRemap(ApplyWarpComposite(in[1], in[2], fs), mx, my).img

\* The map entry of the output pixel pix and the pass of a frame through it:
\* CircularConeImage.py lines 29-79, live_view.py lines 45-64 and 463-510.
DomainPixel ==
    /\ map_pc = "view"
    /\ LET y == pix \div canvas_size
           x == pix % canvas_size
           e == MapEntry(builder, frame_size, canvas_size, x, y, <<0, 0>>)
           mx == [p \in {<<y, x>>} |-> e[1]]
           my == [p \in {<<y, x>>} |-> e[2]]
       IN /\ map_x' = mx
          /\ map_y' = my
          /\ \E v \in FrameValues :
                IF builder = "image"
                THEN \E inMask \in BOOLEAN, h \in DomainImageSides, w \in DomainImageSides :
                        LET f == ImageProcess(v, inMask, h, w, frame_size, mx, my)
                        IN /\ frame_in' = <<v, inMask, h, w>>
                           /\ warped' = f.img
                           /\ stages' = f.trace
                ELSE \E seg \in Segmentations :
                        LET f == ApplyWarpProcess(v, seg, frame_size, mx, my)
                        IN /\ frame_in' = <<v, seg>>
                           /\ warped' = f.img
                           /\ stages' = f.trace
    /\ map_pc' = "viewed"
    /\ UNCHANGED <<builder, frame_size, canvas_size, pix, key>>
    /\ UNCHANGED <<decVars, vidRest, uiVars>>

DomainNext == DomainPixel

SpecDomain == DomainInit /\ [][DomainNext]_vars

\* C19: after the remap and before grading, an output pixel whose map entry
\* is (0, 0) is black, whatever the frame holds (a white frame has white
\* pixels at its top-left corner before compositing).
C19_OutOfDomainIsBlack ==
    map_pc = "viewed" =>
        \A p \in DOMAIN map_x :
            (map_x[p] = 0 /\ map_y[p] = 0) =>
                Remapped(builder, frame_in, frame_size, map_x, map_y)[p] = 0

\* An all-white camera frame went through _apply_warp without a segmentor,
\* and the output pixel followed lies outside the angular span with the map
\* entry (0, 0).
C19_Witness ==
    /\ map_pc = "viewed"
    /\ builder = "live_view"
    /\ frame_in = <<255, "none">>
    /\ \E p \in DOMAIN map_x :
          /\ map_x[p] = 0 /\ map_y[p] = 0
          /\ WithinRadius(p)
          /\ p[2] < canvas_size \div 2
          /\ Remapped(builder, frame_in, frame_size, map_x, map_y)[p] = 0

----------------------------------------------------------------------------
(* The angular span of the cone map builders (SpecMap).                    *)

\* C20: of the pixels within maxRadius, those with dx < 0 and only those fail
\* the angle test and get the entry (0, 0); the pixels with dx = 0 are
\* accepted: above the centre (angle -pi/2) the source column is 0, below it
\* (angle +pi/2) it is frameSize - 1, and the centre pixel itself gets a
\* valid entry, the last source row.
C20_SpanBoundaryAccepted ==
    map_pc \in {"loop", "built"} =>
        \A p \in Handled :
            LET dx == p[2] - canvas_size \div 2
                dy == p[1] - canvas_size \div 2
                last == 32 * (frame_size - 1)
            IN WithinRadius(p) =>
                  /\ AngleAccepted(arctan2(dy, dx)) <=> dx >= 0
                  /\ dx < 0 => (map_x[p] = 0 /\ map_y[p] = 0)
                  /\ dx >= 0 => (/\ 0 <= map_x[p] /\ map_x[p] <= last
                                 /\ 0 <= map_y[p] /\ map_y[p] <= last)
                  /\ (dx = 0 /\ dy < 0) => map_x[p] = 0
                  /\ (dx = 0 /\ dy > 0) => map_x[p] = last
                  /\ (dx = 0 /\ dy = 0) => map_y[p] = last

\* A finished live_view map with more than one source column: a pixel
\* straight below the centre maps to the last column, one straight above it
\* to column 0 and a source row other than 0, and a pixel left of the centre
\* column lies within the radius.
C20_Witness ==
    /\ map_pc = "built"
    /\ builder = "live_view"
    /\ frame_size > 1
    /\ LET c == canvas_size \div 2
       IN /\ \E y \in (c + 1)..(canvas_size - 1) :
                WithinRadius(<<y, c>>) /\ map_x[<<y, c>>] = 32 * (frame_size - 1)
          /\ \E y \in 0..(c - 1) :
                WithinRadius(<<y, c>>) /\ map_x[<<y, c>>] = 0 /\ map_y[<<y, c>>] > 0
          /\ \E p \in Pixels(canvas_size) : WithinRadius(p) /\ p[2] < c

----------------------------------------------------------------------------
(* The radial direction of the cone map builders (SpecMap).                *)

\* The handled pixels the angle test accepts: within the radius, dx >= 0.
AcceptedPixels == {p \in Handled : WithinRadius(p) /\ p[2] >= canvas_size \div 2}

\* C21: the radius is inverted: the centre pixel maps to the last source
\* row, an accepted pixel at radius exactly maxRadius maps to source row 0,
\* and of two accepted pixels the one farther from the centre never has the
\* larger source row.
C21_RadiusInverted ==
    map_pc \in {"loop", "built"} =>
        \A p \in AcceptedPixels :
            /\ Dist2(p) = 0 => map_y[p] = 32 * (frame_size - 1)
            /\ Dist2(p) = (canvas_size \div 2) * (canvas_size \div 2) => map_y[p] = 0
            /\ \A q \in AcceptedPixels : Dist2(p) > Dist2(q) => map_y[p] <= map_y[q]

\* A finished live_view map with several source rows: the centre pixel on
\* the last row, a rim pixel on row 0 and a pixel between them on a row
\* strictly between.
C21_Witness ==
    /\ map_pc = "built"
    /\ builder = "live_view"
    /\ frame_size > 2
    /\ LET c == canvas_size \div 2
       IN /\ map_y[<<c, c>>] = 32 * (frame_size - 1)
          /\ map_y[<<0, c>>] = 0
          /\ \E y \in 1..(c - 1) :
                0 < map_y[<<y, c>>] /\ map_y[<<y, c>>] < 32 * (frame_size - 1)

\* C22: every builder stores, for an accepted pixel, srcX = normAngle *
\* (frameSize - 1) and srcY = normRadius * (frameSize - 1) (here to the 1/32
\* pixel at which a map is read), so that a pixel on the angle-0 axis gets
\* srcX = 0.5 * (frameSize - 1).
C22_SameRealCoordinates ==
    map_pc \in {"loop", "built"} =>
        \A p \in AcceptedPixels :
            LET c == canvas_size \div 2
                dx == p[2] - c
                dy == p[1] - c
                A == 32 * (frame_size - 1)
            IN /\ map_x[p] = MulAngleRound(NormAngle(arctan2(dy, dx)), A)
               /\ map_y[p] = NormRadiusTimes32(A, dx * dx + dy * dy, c)
               /\ dy = 0 => map_x[p] = 16 * (frame_size - 1)

----------------------------------------------------------------------------
(* The channels the decoder of CircularConeVideo.py reads (SpecVideo).     *)

\* C23: the decoded map holds, for every pixel of the RGBA file, srcX from
\* rawX = R * 256 + G (red the high byte, green the low one) and srcY from
\* rawY = B * 256 + A, scaled by frameSize / 4095, srcY flipped, both
\* clamped.
C23_DecodesRedGreenBlueAlpha ==
    (vid_pc = "loop" /\ error = "none") =>
        \A p \in DOMAIN warp_map_x :
            LET c == FilePixel(warp_file, p[2], p[1])
            IN /\ warp_map_x[p] = DecodeX(<<c.R, c.G, c.B, c.A>>)
               /\ warp_map_y[p] = DecodeY(<<c.R, c.G, c.B, c.A>>, TRUE)

----------------------------------------------------------------------------
(* The base map and the rotated map of CircularConeVideo.py (SpecTurn).    *)

\* C24: rotation leaves the decoded base map alone: through every frame and
\* rotate key it stays the map decoded from the file; the rotated map a
\* frame is warped with has the base map's dimensions and is the base map
\* rotated by the angle of that frame, whatever was rotated before.
C24_RotationKeepsBaseMap ==
    /\ [](warp_map_x # <<>> =>
            /\ warp_map_x = DecodeMapX(encoded_map)
            /\ warp_map_y = DecodeMapY(encoded_map, TRUE)
            /\ rot_map_x # <<>> =>
                  LET w == encoded_map.shape[2]
                      h == encoded_map.shape[1]
                      m == get_rotation_matrix(-AngleUsed)
                  IN /\ DOMAIN rot_map_x = DOMAIN warp_map_x
                     /\ DOMAIN rot_map_y = DOMAIN warp_map_y
                     /\ rot_map_x = RotateMap(warp_map_x, m, w, h)
                     /\ rot_map_y = RotateMap(warp_map_y, m, w, h))
    /\ [][warp_map_x # <<>> =>
             (warp_map_x' = warp_map_x /\ warp_map_y' = warp_map_y)]_vars

\* A frame warped at 10 degrees, after two presses of the rotate key,
\* through a non-constant map: the rotated map differs from the base map.
C24_Witness ==
    /\ rot_map_x # <<>>
    /\ AngleUsed = 10
    /\ key = Ord.t
    /\ warp_file.kind = "gradient"
    /\ \E p \in DOMAIN rot_map_x : rot_map_x[p] # 1024 * warp_map_x[p]
\* ---------------------------------------------------------------------------
\* Interface/live_view.py: starting and stopping the preview capture thread.
\* The Tk thread runs _start_preview and _stop_preview; every thread started
\* on _preview_loop runs the loop.  A thread is a record: pc is "test" (at the
\* while condition), "call" (the condition passed, self._cap.read() not yet
\* called), "read" (inside read) or "done"; h is the handle it is reading;
\* stopped, resumed and late record the history the claims speak about:
\* a _stop_preview that began after the thread was created has returned, the
\* thread passed the loop condition after that, the thread began a read on a
\* capture handle after that.
\* ---------------------------------------------------------------------------
MaxPreviewThreads == 3

PreviewInit ==
    /\ MapIdle
    /\ DecIdle
    /\ VidIdle
    /\ SegIdle
    /\ CmpIdle
    /\ CellIdle
    /\ PlyIdle
    /\ LifeIdle

pvRest == <<mapVars, decVars, vidVars, segVars, cmpVars, cellVars, plyVars, rcVars, fsVars, lpVars>>

PreviewAlive(t) == pv_threads[t].pc # "done"

\* live_view.py lines 288-340: the Start Preview button.  The camera may fail
\* to open (lines 313-325: an error box, nothing else changes).
StartPreview ==
    /\ pv_ui = "idle"
    /\ ~pv_previewing
    /\ Len(pv_threads) < MaxPreviewThreads
    /\ \E opened \in BOOLEAN :
         IF pv_thread # 0 /\ PreviewAlive(pv_thread)
         THEN UNCHANGED pvVars
         ELSE IF ~opened
         THEN UNCHANGED pvVars
         ELSE LET h == Len(pv_threads) + 1 IN
              /\ pv_cap' = h
              /\ pv_open' = pv_open \cup {h}
              /\ pv_evt' = FALSE
              /\ pv_threads' = Append(pv_threads,
                     [pc |-> "test", h |-> 0, stopped |-> FALSE,
                      resumed |-> FALSE, late |-> FALSE])
              /\ pv_thread' = h
              /\ pv_previewing' = TRUE
              /\ UNCHANGED pv_ui
    /\ UNCHANGED pvRest

\* live_view.py lines 342-343: the Stop Preview button sets the stop event.
StopPreviewSet ==
    /\ pv_ui = "idle"
    /\ pv_previewing
    /\ pv_evt' = TRUE
    /\ pv_ui' = "join"
    /\ UNCHANGED <<pv_threads, pv_thread, pv_cap, pv_open, pv_previewing>>
    /\ UNCHANGED pvRest

\* live_view.py lines 344-346: join(timeout=1.5) returns when the thread has
\* ended or when the time is up, whatever the thread is doing; the reference
\* is dropped either way.
StopPreviewJoin ==
    /\ pv_ui = "join"
    /\ \E timed_out \in BOOLEAN :
         pv_thread # 0 /\ PreviewAlive(pv_thread) => timed_out
    /\ pv_thread' = 0
    /\ pv_ui' = "release"
    /\ UNCHANGED <<pv_threads, pv_cap, pv_open, pv_evt, pv_previewing>>
    /\ UNCHANGED pvRest

\* live_view.py lines 347-351: the capture is released.
StopPreviewRelease ==
    /\ pv_ui = "release"
    /\ pv_open' = pv_open \ {pv_cap}
    /\ pv_ui' = "none"
    /\ UNCHANGED <<pv_threads, pv_thread, pv_cap, pv_evt, pv_previewing>>
    /\ UNCHANGED pvRest

\* live_view.py lines 352-355: self._cap = None, the buttons are switched and
\* the handler returns.
StopPreviewReturn ==
    /\ pv_ui = "none"
    /\ pv_cap' = 0
    /\ pv_previewing' = FALSE
    /\ pv_ui' = "idle"
    /\ pv_threads' = [t \in DOMAIN pv_threads |->
                         [pv_threads[t] EXCEPT !.stopped = TRUE]]
    /\ UNCHANGED <<pv_thread, pv_open, pv_evt>>
    /\ UNCHANGED pvRest

\* live_view.py line 359: while not self._stop_preview_evt.is_set().
PreviewLoopTest ==
    /\ \E t \in DOMAIN pv_threads :
         /\ pv_threads[t].pc = "test"
         /\ pv_threads' = [pv_threads EXCEPT
                ![t].pc = IF pv_evt THEN "done" ELSE "call",
                ![t].resumed = @ \/ (~pv_evt /\ pv_threads[t].stopped)]
    /\ UNCHANGED <<pv_thread, pv_cap, pv_open, pv_evt, pv_ui, pv_previewing>>
    /\ UNCHANGED pvRest

\* live_view.py lines 360, 366-367: self._cap.read() is called.  With
\* self._cap None the attribute lookup raises, the except clause posts the
\* error box and the thread ends.
PreviewLoopRead ==
    /\ \E t \in DOMAIN pv_threads :
         /\ pv_threads[t].pc = "call"
         /\ pv_threads' = [pv_threads EXCEPT
                ![t].pc = IF pv_cap = 0 THEN "done" ELSE "read",
                ![t].h = pv_cap,
                ![t].late = @ \/ (pv_cap # 0 /\ pv_threads[t].stopped)]
    /\ UNCHANGED <<pv_thread, pv_cap, pv_open, pv_evt, pv_ui, pv_previewing>>
    /\ UNCHANGED pvRest

\* live_view.py lines 360-365: read returns; a frame is stored, or after a
\* failed read (always so on a released handle) the thread sleeps 10 ms; the
\* loop condition is next.
PreviewLoopReturn ==
    /\ \E t \in DOMAIN pv_threads :
         /\ pv_threads[t].pc = "read"
         /\ pv_threads' = [pv_threads EXCEPT ![t].pc = "test", ![t].h = 0]
    /\ UNCHANGED <<pv_thread, pv_cap, pv_open, pv_evt, pv_ui, pv_previewing>>
    /\ UNCHANGED pvRest

PreviewNext ==
    \/ StartPreview
    \/ StopPreviewSet
    \/ StopPreviewJoin
    \/ StopPreviewRelease
    \/ StopPreviewReturn
    \/ PreviewLoopTest
    \/ PreviewLoopRead
    \/ PreviewLoopReturn

SpecPreview == PreviewInit /\ [][PreviewNext]_vars

\* C25: once Stop Preview has returned, a capture thread that existed when it
\* was pressed begins no further read on a capture handle.
C25_NoReadAfterStopReturned ==
    \A t \in DOMAIN pv_threads : ~pv_threads[t].late

\* C26: at most one preview capture thread is alive at any time, and a thread
\* whose Stop Preview has returned never passes the loop condition again.
C26_AtMostOnePreviewThread ==
    /\ Cardinality({t \in DOMAIN pv_threads : PreviewAlive(t)}) <= 1
    /\ \A t \in DOMAIN pv_threads : ~pv_threads[t].resumed
\* ---------------------------------------------------------------------------
\* Interface/record_view.py: Start Recording, Stop and the record thread.
\* Both buttons are enabled at all times (lines 110-111).  A thread is a
\* record: pc is "test" (at the while condition), "call" (the condition
\* passed, self.cap.read() not yet called), "read" (inside read) or "done";
\* stopped says that Stop was pressed after the thread was created, and
\* fault names what the thread did after that: "write" for
\* self.writer.write on a writer released or None, "read" for self.cap.read
\* on a capture released.  Thread t is started together with writer t, and
\* only Stop releases a writer: the write counts when Stop has released the
\* thread's own writer.
\* ---------------------------------------------------------------------------
MaxRecordThreads == 3

RecordInit ==
    /\ MapIdle
    /\ DecIdle
    /\ VidIdle
    /\ SegIdle
    /\ CmpIdle
    /\ CellIdle
    /\ PlyIdle
    /\ LifeIdle

rcRest == <<mapVars, decVars, vidVars, segVars, cmpVars, cellVars, plyVars, pvVars, fsVars, lpVars>>

\* record_view.py lines 176-205 with _open_camera (lines 145-158): the Start
\* Recording button.  The camera may fail to open, the output path may be
\* empty, the writer may fail to open.
StartRecording ==
    /\ rc_ui = "idle"
    /\ Len(rc_threads) < MaxRecordThreads
    /\ \E cam_ok \in BOOLEAN, path_ok \in BOOLEAN, writer_ok \in BOOLEAN :
         LET reopen == rc_cap = 0 \/ rc_cap \notin rc_caps
             c == Len(rc_threads) + 1
             cap1 == IF reopen THEN (IF cam_ok THEN c ELSE 0) ELSE rc_cap
             caps1 == IF reopen
                      THEN (rc_caps \ {rc_cap}) \cup (IF cam_ok THEN {c} ELSE {})
                      ELSE rc_caps
         IN  /\ rc_cap' = cap1
             /\ rc_caps' = caps1
             /\ IF cap1 = 0 \/ ~path_ok
                THEN UNCHANGED <<rc_threads, rc_thread, rc_writer, rc_writers, rc_recording>>
                ELSE IF ~writer_ok
                THEN /\ rc_writer' = 0
                     /\ UNCHANGED <<rc_threads, rc_thread, rc_writers, rc_recording>>
                ELSE /\ rc_writer' = c
                     /\ rc_writers' = rc_writers \cup {c}
                     /\ rc_recording' = TRUE
                     /\ rc_threads' = Append(rc_threads,
                            [pc |-> "test", stopped |-> FALSE, fault |-> "none"])
                     /\ rc_thread' = c
    /\ UNCHANGED rc_ui
    /\ UNCHANGED rcRest

\* record_view.py lines 219-221: the Stop button; self.recording = False when
\* a recording is on, else straight to _close_camera.
StopRecordingBegin ==
    /\ rc_ui = "idle"
    /\ rc_recording' = FALSE
    /\ rc_ui' = IF rc_recording THEN "join" ELSE "camera"
    /\ rc_threads' = [t \in DOMAIN rc_threads |->
                         [rc_threads[t] EXCEPT !.stopped = TRUE]]
    /\ UNCHANGED <<rc_thread, rc_cap, rc_caps, rc_writer, rc_writers>>
    /\ UNCHANGED rcRest

\* record_view.py lines 222-226: record_thread.join(timeout=1.0) returns when
\* the thread has ended or when the second is over.
StopRecordingJoin ==
    /\ rc_ui = "join"
    /\ rc_ui' = "writer"
    /\ UNCHANGED <<rc_threads, rc_thread, rc_cap, rc_caps, rc_writer, rc_writers,
                   rc_recording>>
    /\ UNCHANGED rcRest

\* record_view.py lines 227-231: self.writer.release(), then self.writer = None.
StopRecordingWriter ==
    /\ rc_ui \in {"writer", "wnone"}
    /\ IF rc_ui = "writer"
       THEN /\ rc_writers' = rc_writers \ {rc_writer}
            /\ rc_ui' = "wnone"
            /\ UNCHANGED rc_writer
       ELSE /\ rc_writer' = 0
            /\ rc_ui' = "camera"
            /\ UNCHANGED rc_writers
    /\ UNCHANGED <<rc_threads, rc_thread, rc_cap, rc_caps, rc_recording>>
    /\ UNCHANGED rcRest

\* record_view.py lines 233-234 with _close_camera (lines 160-165): the
\* capture is released, then self.cap = None and the handler returns.
StopRecordingCamera ==
    /\ rc_ui \in {"camera", "cnone"}
    /\ IF rc_ui = "camera"
       THEN /\ rc_caps' = rc_caps \ {rc_cap}
            /\ rc_ui' = "cnone"
            /\ UNCHANGED rc_cap
       ELSE /\ rc_cap' = 0
            /\ rc_ui' = "idle"
            /\ UNCHANGED rc_caps
    /\ UNCHANGED <<rc_threads, rc_thread, rc_writer, rc_writers, rc_recording>>
    /\ UNCHANGED rcRest

\* record_view.py line 208: while self.recording and self.cap and
\* self.cap.isOpened().
RecordLoopTest ==
    /\ \E t \in DOMAIN rc_threads :
         /\ rc_threads[t].pc = "test"
         /\ rc_threads' = [rc_threads EXCEPT
                ![t].pc = IF rc_recording /\ rc_cap # 0 /\ rc_cap \in rc_caps
                          THEN "call" ELSE "done"]
    /\ UNCHANGED <<rc_thread, rc_cap, rc_caps, rc_writer, rc_writers, rc_recording, rc_ui>>
    /\ UNCHANGED rcRest

\* record_view.py line 209: self.cap.read() is called; with self.cap None the
\* attribute lookup raises and, the loop having no except clause, the thread
\* ends.
RecordLoopRead ==
    /\ \E t \in DOMAIN rc_threads :
         /\ rc_threads[t].pc = "call"
         /\ rc_threads' = [rc_threads EXCEPT
                ![t].pc = IF rc_cap = 0 THEN "done" ELSE "read",
                ![t].fault = IF rc_threads[t].stopped /\ rc_cap # 0
                                /\ rc_cap \notin rc_caps
                             THEN "read" ELSE @]
    /\ UNCHANGED <<rc_thread, rc_cap, rc_caps, rc_writer, rc_writers, rc_recording, rc_ui>>
    /\ UNCHANGED rcRest

\* record_view.py lines 209-217: read returns; not ok leaves the loop, else
\* the frame goes to self.writer.write (an AttributeError ends the thread
\* when self.writer is None) and the loop condition is next.
RecordLoopWrite ==
    /\ \E t \in DOMAIN rc_threads, ok \in BOOLEAN :
         /\ rc_threads[t].pc = "read"
         /\ rc_threads' = [rc_threads EXCEPT
                ![t].pc = IF ok /\ rc_writer # 0 THEN "test" ELSE "done",
                ![t].fault = IF ok /\ rc_threads[t].stopped /\ t \notin rc_writers
                                /\ rc_writer \notin rc_writers
                             THEN "write" ELSE @]
    /\ UNCHANGED <<rc_thread, rc_cap, rc_caps, rc_writer, rc_writers, rc_recording, rc_ui>>
    /\ UNCHANGED rcRest

RecordNext ==
    \/ StartRecording
    \/ StopRecordingBegin
    \/ StopRecordingJoin
    \/ StopRecordingWriter
    \/ StopRecordingCamera
    \/ RecordLoopTest
    \/ RecordLoopRead
    \/ RecordLoopWrite

SpecRecord == RecordInit /\ [][RecordNext]_vars

\* C27: at most one record thread is alive and at most one video writer is
\* open at any time.
C27_OneRecordThreadOneWriter ==
    /\ Cardinality({t \in DOMAIN rc_threads : rc_threads[t].pc # "done"}) <= 1
    /\ Cardinality(rc_writers) <= 1

\* C28: after Stop was pressed the record thread never calls write on a
\* writer that is released or None and never calls read on a capture that is
\* released.
C28_NoUseAfterStop ==
    \A t \in DOMAIN rc_threads : rc_threads[t].fault = "none"
\* ---------------------------------------------------------------------------
\* Interface/live_view.py: the fullscreen window.  _start_fullscreen,
\* _stop_fullscreen and the after callbacks all run on the Tk thread, one at a
\* time, and not while that thread is inside _stop_preview.
\* ---------------------------------------------------------------------------
MaxTickChains == 3

fsRest == <<mapVars, decVars, vidVars, segVars, cmpVars, cellVars, plyVars, pvVars, rcVars, lpVars>>

\* live_view.py lines 392-413: the Open Fullscreen button (enabled while no
\* fullscreen is running); the handler ends with a direct call of
\* _fullscreen_tick, which schedules the first callback.
OpenFullscreen ==
    /\ pv_ui = "idle"
    /\ ~fs_running
    /\ fs_pending < MaxTickChains
    /\ IF fs_win /\ fs_running
       THEN UNCHANGED fsVars
       ELSE IF pv_cap = 0
       THEN UNCHANGED fsVars
       ELSE /\ fs_win' = TRUE
            /\ fs_running' = TRUE
            /\ fs_pending' = fs_pending + 1
    /\ UNCHANGED fsRest

\* live_view.py lines 415-427: the Close Fullscreen button, Escape or the
\* window's close box.  Nothing cancels the scheduled callback.
CloseFullscreen ==
    /\ pv_ui = "idle"
    /\ fs_win
    /\ fs_running' = FALSE
    /\ fs_win' = FALSE
    /\ UNCHANGED fs_pending
    /\ UNCHANGED fsRest

\* live_view.py lines 429-460: a scheduled _fullscreen_tick fires; it returns
\* at once when _fs_running is False, else shows a frame and schedules itself
\* again.
FullscreenTick ==
    /\ pv_ui = "idle"
    /\ fs_pending > 0
    /\ fs_pending' = IF fs_running THEN fs_pending ELSE fs_pending - 1
    /\ UNCHANGED <<fs_win, fs_running>>
    /\ UNCHANGED fsRest

FullscreenNext ==
    \/ PreviewNext
    \/ OpenFullscreen
    \/ CloseFullscreen
    \/ FullscreenTick

SpecFullscreen == PreviewInit /\ [][FullscreenNext]_vars

\* C29: at most one _fullscreen_tick callback is scheduled at any time.
C29_OneTickChain == fs_pending <= 1
\* ---------------------------------------------------------------------------
\* Interface/record_view.py lines 360-409, upload_view.py lines 188-237: the
\* playback loop of _cone_player_worker, followed on its own from the state
\* at its first line (the capture open, the writer opened or not, the
\* window shown).  The two views run the same loop.
\* ---------------------------------------------------------------------------
MaxFileFrames == 3

PlayerLoopInit ==
    /\ MapIdle
    /\ DecIdle
    /\ VidIdle
    /\ SegIdle
    /\ CmpIdle
    /\ CellIdle
    /\ PlyIdle
    /\ PvIdle
    /\ RcIdle
    /\ FsIdle
    /\ lp_view \in PlayerViews
    /\ lp_len \in 0..MaxFileFrames
    /\ lp_pos = 0
    /\ lp_cap = "open"
    /\ lp_writer \in {"none", "open"}
    /\ lp_win = "shown"
    /\ lp_key = "none"
    /\ lp_pc = "read"

lpRest == <<mapVars, decVars, vidVars, segVars, cmpVars, cellVars, plyVars,
            pvVars, rcVars, fsVars>>

\* The user presses q or Esc in the window; the press waits for the next
\* cv2.waitKey (record_view.py line 401).
PlayerPressKey ==
    /\ lp_win = "shown"
    /\ lp_key = "none"
    /\ lp_key' \in {"q", "esc"}
    /\ UNCHANGED <<lp_view, lp_len, lp_pos, lp_cap, lp_writer, lp_win, lp_pc>>
    /\ UNCHANGED lpRest

\* record_view.py lines 361-365: cap.read(); past the last frame the read
\* fails, then cap.set(cv2.CAP_PROP_POS_FRAMES, 0) rewinds the file and the
\* loop continues with the next read.
PlayerLoopRead ==
    /\ lp_pc \in {"read", "rewind"}
    /\ IF lp_pc = "rewind"
       THEN lp_pos' = 0 /\ lp_pc' = "read"
       ELSE IF lp_pos < lp_len
       THEN lp_pos' = lp_pos + 1 /\ lp_pc' = "frame"
       ELSE lp_pc' = "rewind" /\ UNCHANGED lp_pos
    /\ UNCHANGED <<lp_view, lp_len, lp_cap, lp_writer, lp_win, lp_key>>
    /\ UNCHANGED lpRest

\* record_view.py lines 367-409: the frame is processed (an error raised
\* there leaves the worker, nothing catches it), shown and written, then
\* cv2.waitKey(delay) takes the waiting key; on q or Esc the loop is left and
\* the capture, the writer and the window are released.
PlayerLoopFrame ==
    /\ lp_pc = "frame"
    /\ \E raises \in BOOLEAN :
         IF raises
         THEN /\ lp_pc' = "raised"
              /\ UNCHANGED <<lp_cap, lp_writer, lp_win, lp_key>>
         ELSE IF lp_key \in {"q", "esc"}
         THEN /\ lp_key' = "none"
              /\ lp_cap' = "released"
              /\ lp_writer' = IF lp_writer = "none" THEN "none" ELSE "released"
              /\ lp_win' = "destroyed"
              /\ lp_pc' = "done"
         ELSE /\ lp_pc' = "read"
              /\ UNCHANGED <<lp_cap, lp_writer, lp_win, lp_key>>
    /\ UNCHANGED <<lp_view, lp_len, lp_pos>>
    /\ UNCHANGED lpRest

PlayerLoopNext == PlayerPressKey \/ PlayerLoopRead \/ PlayerLoopFrame

\* The worker thread keeps running while it has a step to take.
SpecPlayerLoop ==
    PlayerLoopInit /\ [][PlayerLoopNext]_vars
        /\ WF_vars(PlayerLoopRead \/ PlayerLoopFrame)

====
